---- MODULE Spec2Model ----
(***************************************************************************)
(* A model of the rv32i-sim simulator: the MMU, the cache levels, the      *)
(* inclusive and exclusive storage hierarchies, the instruction decoder,   *)
(* the ALU, the branch predictor and the single-cycle and pipelined        *)
(* drivers.  32-bit words are kept as signed integers (i32); a u32 that    *)
(* has bit 31 set is the negative number with the same bit pattern.        *)
(***************************************************************************)
EXTENDS Integers, Sequences, FiniteSets, TLC

(***************************************************************************)
(* Option<T>: None is the empty sequence, Some(v) the one-element sequence *)
(***************************************************************************)
None == << >>

Some(v) == << v >>

Unwrap(o) == o[1]

\* the element of a one-element set: The({e : x \in {v}}) is e with x bound
\* to v
The(S) == CHOOSE x \in S : TRUE

EmptyMap == [x \in {} |-> 0]

Put(f, x, v) == (x :> v) @@ f

Pow2(n) == 2^n

(***************************************************************************)
(* 32-bit arithmetic on the i32 representation: u32 shifts, compares and   *)
(* wrapping add/sub, and the bitwise operators of the ALU.                 *)
(***************************************************************************)
\* (x as u32) >> s, 0 <= s <= 31
shr(x, s) ==
    IF s = 0 THEN x
    ELSE LET low == IF x < 0 THEN (x + 1073741824) + 1073741824 ELSE x
         IN  ((low \div Pow2(s - 1)) \div 2)
                 + (IF x < 0 THEN Pow2(31 - s) ELSE 0)

\* (x as u32) << s, 0 <= s <= 31, the bits shifted out are lost
shl(x, s) ==
    IF s = 0 THEN x
    ELSE LET low31 == IF x < 0 THEN (x + 1073741824) + 1073741824 ELSE x
             low == IF s = 1 THEN low31 ELSE low31 % (2 * Pow2(31 - s))
         IN  IF low >= Pow2(31 - s)
             THEN (((low - Pow2(31 - s)) - Pow2(31 - s)) * Pow2(s - 1)) * 2
             ELSE (low * Pow2(s - 1)) * 2

\* the comparison without the casts to u32
ult_signed(a, b) == a < b

\* (a as u32) < (b as u32)
ult(a, b) == IF (a < 0) = (b < 0) THEN a < b ELSE b < 0

\* x.wrapping_shr(s) of an i32, 0 <= s <= 31: the sign bit fills the top
wrapping_shr(x, s) ==
    IF s = 31 THEN (IF x < 0 THEN -1 ELSE 0) ELSE x \div Pow2(s)

wrapping_add(a, b) ==
    IF a >= 0 /\ b >= 0 /\ a > 2147483647 - b
    THEN (a - 2147483647 - 1) + (b - 2147483647 - 1)
    ELSE IF a < 0 /\ b < 0 /\ a < (-2147483647 - 1) - b
    THEN (a + 2147483647 + 1) + (b + 2147483647 + 1)
    ELSE a + b

wrapping_sub(a, b) ==
    IF b = -2147483647 - 1 THEN wrapping_add(a, b) ELSE wrapping_add(a, -b)

\* op1 & op2, op1 | op2, op1 ^ op2 on two's complement, bit by bit
RECURSIVE bitwise(_, _, _)
bitwise(op, a, b) ==
    IF a \in {0, -1} /\ b \in {0, -1}
    THEN CASE op = "AND" -> IF a = -1 /\ b = -1 THEN -1 ELSE 0
           [] op = "OR" -> IF a = -1 \/ b = -1 THEN -1 ELSE 0
           [] op = "XOR" -> IF a # b THEN -1 ELSE 0
    ELSE 2 * bitwise(op, a \div 2, b \div 2)
             + (CASE op = "AND" -> (a % 2) * (b % 2)
                  [] op = "OR" -> IF (a % 2) + (b % 2) > 0 THEN 1 ELSE 0
                  [] op = "XOR" -> ((a % 2) + (b % 2)) % 2)

(***************************************************************************)
(* MMU (memory/mmu.rs): a lazy two-level page table.  data[i][j] is a page *)
(* when both indices are present; a page maps an offset to a byte and an   *)
(* offset that was never written still holds the 0 of its allocation.      *)
(***************************************************************************)
WORD_WIDTH == 32

FIRST_LEVEL_WIDTH == 10

SECOND_LEVEL_WIDTH == 10

PAGE_WIDTH == 12

SECOND_LEVEL_SIZE == Pow2(SECOND_LEVEL_WIDTH)

PAGE_SIZE == Pow2(PAGE_WIDTH)

MMU_make == [data |-> EmptyMap]

get_first_level_index(address) == shr(address, WORD_WIDTH - FIRST_LEVEL_WIDTH)

get_second_level_index(address) ==
    shr(address, WORD_WIDTH - FIRST_LEVEL_WIDTH - SECOND_LEVEL_WIDTH)
        % SECOND_LEVEL_SIZE

get_page_offset(address) == address % PAGE_SIZE

page_exists(mmu, address) ==
    LET i == get_first_level_index(address)
        j == get_second_level_index(address)
    IN  i \in DOMAIN mmu.data /\ j \in DOMAIN mmu.data[i]

\* an allocation that installs a fresh page whatever was there
allocate_page_clearing(mmu, address) ==
    LET i == get_first_level_index(address)
        j == get_second_level_index(address)
        second == IF i \in DOMAIN mmu.data THEN mmu.data[i] ELSE EmptyMap
    IN  [mmu |-> [data |-> Put(mmu.data, i, Put(second, j, EmptyMap))],
         ret |-> TRUE]

\* allocate_page: the new MMU and the returned flag
allocate_page(mmu, address) ==
    LET i == get_first_level_index(address)
        j == get_second_level_index(address)
        second == IF i \in DOMAIN mmu.data THEN mmu.data[i] ELSE EmptyMap
    IN  IF j \in DOMAIN second
        THEN [mmu |-> [data |-> Put(mmu.data, i, second)], ret |-> FALSE]
        ELSE [mmu |-> [data |-> Put(mmu.data, i, Put(second, j, EmptyMap))],
              ret |-> TRUE]

\* MMU::set8: err is "" on success
MMU_set8(mmu, address, byte) ==
    LET i == get_first_level_index(address)
        j == get_second_level_index(address)
        k == get_page_offset(address)
    IN  IF page_exists(mmu, address)
        THEN [mmu |-> [data |-> Put(mmu.data, i,
                                    Put(mmu.data[i], j,
                                        Put(mmu.data[i][j], k, byte)))],
              err |-> ""]
        ELSE [mmu |-> mmu, err |-> "WriteUnallocated"]

\* MMU::get8
MMU_get8(mmu, address) ==
    LET i == get_first_level_index(address)
        j == get_second_level_index(address)
        k == get_page_offset(address)
    IN  IF page_exists(mmu, address)
        THEN [val |-> IF k \in DOMAIN mmu.data[i][j]
                      THEN mmu.data[i][j][k] ELSE 0,
              err |-> ""]
        ELSE [val |-> 0, err |-> "ReadUnallocated"]

(***************************************************************************)
(* One cache level (memory/cache.rs).  blocks is kept sparse: a slot that  *)
(* was never assigned holds the block Cache::make gave it.                 *)
(***************************************************************************)
RECURSIVE get_log_2(_)
get_log_2(value) == IF value <= 1 THEN 0 ELSE 1 + get_log_2(value \div 2)

is_pow_2(value) == value # 0 /\ Pow2(get_log_2(value)) = value

CachePolicy_make(cache_size, block_size, associativity, hit_latency) ==
    [cache_size |-> cache_size, block_size |-> block_size,
     block_num |-> cache_size \div block_size,
     associativity |-> associativity, hit_latency |-> hit_latency]

CachePolicy_is_valid(policy) ==
    /\ is_pow_2(policy.cache_size)
    /\ is_pow_2(policy.block_size)
    /\ policy.cache_size % policy.block_size = 0
    /\ policy.cache_size = policy.block_size * policy.block_num
    /\ policy.block_num % policy.associativity = 0

Cache_make(policy) ==
    [policy |-> policy,
     history |-> [num_hit |-> 0, num_miss |-> 0],
     offset_bits |-> get_log_2(policy.block_size),
     index_bits |-> get_log_2(policy.block_num \div policy.associativity),
     blocks |-> EmptyMap]

\* self.blocks[i]
BlockAt(c, i) ==
    IF i \in DOMAIN c.blocks THEN c.blocks[i]
    ELSE [valid |-> FALSE, dirty |-> FALSE, tag |-> 0,
          index |-> i \div c.policy.associativity, prv_ref |-> 0]

SetBlock(c, i, b) == [c EXCEPT !.blocks = Put(c.blocks, i, b)]

get_index(c, address) == shr(address, c.offset_bits) % Pow2(c.index_bits)

get_tag(c, address) == shr(address, c.offset_bits + c.index_bits)

get_address(c, block) ==
    shl(block.tag, c.offset_bits + c.index_bits)
        + block.index * Pow2(c.offset_bits)

make_block(c, address) ==
    [valid |-> TRUE, dirty |-> FALSE, tag |-> get_tag(c, address),
     index |-> get_index(c, address), prv_ref |-> 0]

\* reset_block that leaves the block as it is
reset_block_kept(c, i) == c

reset_block(c, i) ==
    SetBlock(c, i, [valid |-> FALSE, dirty |-> FALSE, tag |-> 0,
                    index |-> i \div c.policy.associativity, prv_ref |-> 0])

\* a fix_block that fixes the tag and leaves the index
fix_block_tag_only(c, i, address) ==
    SetBlock(c, i, [BlockAt(c, i) EXCEPT !.tag = get_tag(c, address)])

\* fix_block without its assertion; fix_block_ok is the assertion
fix_block(c, i, address) ==
    SetBlock(c, i, [BlockAt(c, i) EXCEPT !.tag = get_tag(c, address),
                                         !.index = get_index(c, address)])

fix_block_ok(c, i, address) ==
    get_index(c, address) = i \div c.policy.associativity

validate_block(c, i) == BlockAt(c, i).index = i \div c.policy.associativity

SetBegin(c, index) == index * c.policy.associativity

SetEnd(c, index) == (index + 1) * c.policy.associativity

\* the slot the loop of Cache::lookup returns, as Option<usize>
RECURSIVE lookup_from(_, _, _, _)
lookup_from(c, tag, i, end) ==
    IF i >= end THEN None
    ELSE IF BlockAt(c, i).valid /\ BlockAt(c, i).tag = tag THEN Some(i)
    ELSE lookup_from(c, tag, i + 1, end)

\* a lookup that finds nothing
lookup_nothing(c, address) == None

lookup(c, address) ==
    lookup_from(c, get_tag(c, address),
                SetBegin(c, get_index(c, address)),
                SetEnd(c, get_index(c, address)))

\* the index-consistency assertion of Cache::lookup on every slot it visits
lookup_ok(c, address) ==
    LET index == get_index(c, address)
        bad == {i \in SetBegin(c, index)..(SetEnd(c, index) - 1) :
                   BlockAt(c, i).index # index}
    IN  \/ bad = {}
        \/ /\ lookup(c, address) # None
           /\ \A i \in bad : i > Unwrap(lookup(c, address))

is_in_cache(c, address) == lookup(c, address) # None

\* the scan of get_index_to_replace from slot i on
RECURSIVE replace_from(_, _, _, _, _)
replace_from(c, i, end, result, min_ref) ==
    IF i >= end THEN result
    ELSE IF ~BlockAt(c, i).valid THEN i
    ELSE IF BlockAt(c, i).prv_ref < min_ref
         THEN replace_from(c, i + 1, end, i, BlockAt(c, i).prv_ref)
         ELSE replace_from(c, i + 1, end, result, min_ref)

\* a choice that always takes the first slot of the set
get_index_to_replace_first(c, index) == SetBegin(c, index)

get_index_to_replace(c, index) ==
    replace_from(c, SetBegin(c, index), SetEnd(c, index), SetBegin(c, index),
                 BlockAt(c, SetBegin(c, index)).prv_ref)

\* a record_hit that counts nothing
record_hit_uncounted(c) == c

record_hit(c) == [c EXCEPT !.history.num_hit = @ + 1]

record_miss(c) == [c EXCEPT !.history.num_miss = @ + 1]

\* access_index that records the reference and never marks the block
access_index_clean(c, target_index, access_type, ref_counter) ==
    SetBlock(c, target_index,
             [BlockAt(c, target_index) EXCEPT !.prv_ref = ref_counter])

access_index(c, target_index, access_type, ref_counter) ==
    SetBlock(c, target_index,
             [BlockAt(c, target_index) EXCEPT
                 !.prv_ref = ref_counter,
                 !.dirty = IF access_type = "Write" THEN TRUE ELSE @])

(***************************************************************************)
(* Storage hierarchies (memory/mod.rs, inclusive.rs, exclusive.rs).  A     *)
(* hierarchy is a record; level k of the source is caches[k + 1].  An      *)
(* operation that fails an assert! leaves the name of the assertion in     *)
(* panic and does nothing more.                                            *)
(***************************************************************************)
CachePolicy_default == CachePolicy_make(16 * 1024, 64, 1, 1)

VictimCache_make(policies) ==
    IF Len(policies) > 0
    THEN Cache_make(CachePolicy_make(8 * policies[1].block_size,
                                     policies[1].block_size, 1, 0))
    ELSE Cache_make(CachePolicy_default)

InclusiveCache_make(policies, write_hit_policy, write_miss_policy, miss_penalty, use_victim_cache) ==
    [kind |-> "inclusive",
     n |-> Len(policies),
     caches |-> [k \in 1..Len(policies) |-> Cache_make(policies[k])],
     mmu |-> MMU_make,
     write_hit_policy |-> write_hit_policy,
     write_miss_policy |-> write_miss_policy,
     miss_penalty |-> miss_penalty,
     total_penalty |-> 0,
     total_worst_penalty |-> 0,
     use_victim_cache |-> use_victim_cache,
     victim_cache |-> VictimCache_make(policies),
     ref_counter |-> 0,
     panic |-> ""]

\* the exclusive hierarchy has no write policies and no victim cache; the
\* three fields are carried unused
ExclusiveCache_make(policies, miss_penalty) ==
    [kind |-> "exclusive",
     n |-> Len(policies),
     caches |-> [k \in 1..Len(policies) |-> Cache_make(policies[k])],
     mmu |-> MMU_make,
     write_hit_policy |-> "WriteBack",
     write_miss_policy |-> "WriteAllocate",
     miss_penalty |-> miss_penalty,
     total_penalty |-> 0,
     total_worst_penalty |-> 0,
     use_victim_cache |-> FALSE,
     victim_cache |-> VictimCache_make(policies),
     ref_counter |-> 0,
     panic |-> ""]

DefaultPolicies ==
    << CachePolicy_make(16 * 1024, 64, 1, 1),
       CachePolicy_make(128 * 1024, 64, 8, 8),
       CachePolicy_make(2 * 1024 * 1024, 64, 16, 20) >>

InclusiveCache_default ==
    InclusiveCache_make(DefaultPolicies, "WriteBack", "WriteAllocate", 100,
                        FALSE)

ExclusiveCache_default == ExclusiveCache_make(DefaultPolicies, 100)

Res(h, stall, idx) == [h |-> h, stall |-> stall, idx |-> idx]

Panic(h, what) == IF h.panic = "" THEN [h EXCEPT !.panic = what] ELSE h

CacheAt(h, k) == h.caches[k + 1]

\* penalty that charges every level the miss penalty
penalty_flat(h, k) == h.miss_penalty

penalty(h, k) ==
    IF k < h.n THEN CacheAt(h, k).policy.hit_latency ELSE h.miss_penalty

\* StorageInterface::lookup
Hier_lookup(h, k, address) ==
    IF k >= h.n THEN None ELSE lookup(CacheAt(h, k), address)

\* write_block_to_victim_cache that drops the evicted block
victim_write_dropped(h, block) == h

\* write_block_to_victim_cache, fix_block's assertion included
write_block_to_victim_cache(h, block) ==
    LET address == get_address(CacheAt(h, 0), block)
        index_to_replace == get_index(h.victim_cache, address)
        vc == fix_block(SetBlock(h.victim_cache, index_to_replace, block),
                        index_to_replace, address)
    IN  IF fix_block_ok(h.victim_cache, index_to_replace, address)
        THEN [h EXCEPT !.victim_cache = vc]
        ELSE Panic([h EXCEPT !.victim_cache = vc], "fix_block")

RECURSIVE access_inner(_, _, _, _, _)
RECURSIVE fetch_from_next_level(_, _, _, _)
RECURSIVE write_bytes(_, _, _, _, _)
RECURSIVE Exclusive_handle_miss(_, _, _, _, _)

\* the loop of write_to_next_level from byte i on
write_bytes(h, k, address, i, block_size) ==
    IF i >= block_size \/ h.panic # "" THEN h
    ELSE write_bytes(access_inner(h, k + 1, address + i, "Write", None).h,
                     k, address, i + 1, block_size)

\* write_to_next_level that drops the block
write_to_next_level_dropped(h, k, block) == h

write_to_next_level(h, k, block) ==
    IF k >= h.n THEN h
    ELSE write_bytes(h, k, get_address(CacheAt(h, k), block), 0,
                     CacheAt(h, k).policy.block_size)

\* the victim-cache hit branch of fetch_from_next_level (k = 0)
victim_hit(h, address, stall, hit_index) ==
    LET vc0 == IF stall # None THEN record_hit(h.victim_cache)
               ELSE h.victim_cache
        st == IF stall # None THEN Some(h.victim_cache.policy.hit_latency)
              ELSE None
        c0 == CacheAt(h, 0)
        h0 == [h EXCEPT !.victim_cache = vc0]
        swapped(c2, vc1, vc2, index_to_replace, c1_ok, vc1_ok) ==
            IF ~c1_ok
            THEN Res(Panic([h0 EXCEPT !.caches[1] = c2, !.victim_cache = vc1],
                           "fix_block"), st, None)
            ELSE IF ~vc1_ok
            THEN Res(Panic([h0 EXCEPT !.caches[1] = c2, !.victim_cache = vc2],
                           "fix_block"), st, None)
            ELSE Res([h0 EXCEPT !.caches[1] = c2, !.victim_cache = vc2], st,
                     Some(index_to_replace))
        swap(victim_address, index, index_to_replace, replaced_address, c1,
             vc1) ==
            IF index # index_to_replace
            THEN Res(Panic(h0, "assert_eq index index_to_replace"), st, None)
            ELSE IF index # get_index(c0, address)
            THEN Res(Panic(h0, "assert_eq index get_index"), st, None)
            ELSE swapped(fix_block(c1, index, victim_address), vc1,
                         fix_block(vc1, hit_index, replaced_address),
                         index_to_replace,
                         fix_block_ok(c1, index, victim_address),
                         fix_block_ok(vc1, hit_index, replaced_address))
        replace(victim_address, index, index_to_replace) ==
            swap(victim_address, index, index_to_replace,
                 get_address(c0, BlockAt(c0, index_to_replace)),
                 SetBlock(c0, index, BlockAt(vc0, hit_index)),
                 SetBlock(vc0, hit_index, BlockAt(c0, index)))
        locate(victim_address, index) ==
            replace(victim_address, index, get_index_to_replace(c0, index))
        found(victim_address) ==
            locate(victim_address, get_index(c0, victim_address))
    IN  found(get_address(vc0, BlockAt(vc0, hit_index)))

\* fetch_from_next_level after the victim-cache probe
fetch_block(h, k, address, stall) ==
    LET block == make_block(CacheAt(h, k), address)
    IN  The({
          IF r1.h.panic # "" THEN Res(r1.h, r1.stall, None)
          ELSE IF ~lookup_ok(CacheAt(r1.h, k), address)
          THEN Res(Panic(r1.h, "lookup index"), r1.stall, None)
          ELSE IF Hier_lookup(r1.h, k, address) # None
          THEN Res(Panic(r1.h, "assert lookup is_none"), r1.stall, None)
          ELSE The({ The({ The({
            Res(IF h3.panic = "" /\ h3.write_hit_policy = "WriteBack"
                   /\ replaced_block.dirty
                THEN write_to_next_level(h3, k, replaced_block)
                ELSE h3,
                r1.stall, Some(index_to_replace))
            : h3 \in {IF r1.h.use_victim_cache /\ k = 0
                         /\ replaced_block.valid
                      THEN write_block_to_victim_cache(
                               [r1.h EXCEPT !.caches[k + 1] =
                                   SetBlock(@, index_to_replace, block)],
                               replaced_block)
                      ELSE [r1.h EXCEPT !.caches[k + 1] =
                               SetBlock(@, index_to_replace, block)]} })
            : replaced_block \in {BlockAt(CacheAt(r1.h, k), index_to_replace)} })
            : index_to_replace \in
                  {get_index_to_replace(CacheAt(r1.h, k), block.index)} })
          : r1 \in {access_inner(h, k + 1, address, "Write", stall)} })

\* a fetch that does not probe the victim cache
fetch_from_next_level_unprobed(h, k, address, stall) ==
    fetch_block(h, k, address, stall)

fetch_from_next_level(h, k, address, stall) ==
    IF h.use_victim_cache /\ k = 0
    THEN IF ~lookup_ok(h.victim_cache, address)
         THEN Res(Panic(h, "lookup index"), stall, None)
         ELSE The({ IF hit # None
                    THEN victim_hit(h, address, stall, Unwrap(hit))
                    ELSE fetch_block([h EXCEPT !.victim_cache = record_miss(@)],
                                     k, address, stall)
                    : hit \in {lookup(h.victim_cache, address)} })
    ELSE fetch_block(h, k, address, stall)

\* InclusiveCache::handle_hit
Inclusive_handle_hit(h, k, address, access_type, stall) ==
    IF access_type = "Write" /\ h.write_hit_policy = "WriteThrough"
    THEN Res(access_inner(h, k + 1, address, "Write", None).h, stall, None)
    ELSE Res(h, stall, None)

\* a handle_miss that fetches the line whatever the write-miss policy
Inclusive_handle_miss_allocating(h, k, address, access_type, stall) ==
    fetch_from_next_level(h, k, address, stall)

\* InclusiveCache::handle_miss
Inclusive_handle_miss(h, k, address, access_type, stall) ==
    IF access_type = "Read" \/ h.write_miss_policy = "WriteAllocate"
    THEN fetch_from_next_level(h, k, address, stall)
    ELSE The({ Res(r.h, r.stall, None)
               : r \in {access_inner(h, k + 1, address, "Write", stall)} })

\* ExclusiveCache::handle_miss
Exclusive_handle_miss(h, k, address, access_type, stall) ==
    LET block == make_block(CacheAt(h, k), address)
    IN  IF ~lookup_ok(CacheAt(h, k), address)
        THEN Res(Panic(h, "lookup index"), stall, None)
        ELSE IF Hier_lookup(h, k, address) # None
        THEN Res(Panic(h, "assert lookup is_none"), stall, None)
        ELSE The({ The({ The({
          IF r2.h.panic # "" THEN Res(r2.h, r2.stall, None)
          ELSE IF r2.idx = None
          THEN Res(r2.h, r2.stall, Some(index_to_replace))
          ELSE The({ Res(IF replaced_block.valid
                         THEN write_to_next_level(h3, k, replaced_block)
                         ELSE h3,
                         r2.stall, Some(index_to_replace))
                     : h3 \in {[r2.h EXCEPT !.caches[k + 2] =
                                   reset_block(@, Unwrap(r2.idx))]} })
          : r2 \in {access_inner([h EXCEPT !.caches[k + 1] =
                                     SetBlock(@, index_to_replace, block)],
                                 k + 1, address, access_type, stall)} })
          : replaced_block \in {BlockAt(CacheAt(h, k), index_to_replace)} })
          : index_to_replace \in
                {get_index_to_replace(CacheAt(h, k), block.index)} })

\* the default handle_hit of the trait does nothing (exclusive hierarchy)
handle_hit(h, k, address, access_type, stall) ==
    IF h.kind = "inclusive"
    THEN Inclusive_handle_hit(h, k, address, access_type, stall)
    ELSE Res(h, stall, None)

handle_miss(h, k, address, access_type, stall) ==
    IF h.kind = "inclusive"
    THEN Inclusive_handle_miss(h, k, address, access_type, stall)
    ELSE Exclusive_handle_miss(h, k, address, access_type, stall)

\* the final "access the cache" step of access_inner
touch(r, k, access_type) ==
    IF r.h.panic # "" \/ r.idx = None THEN r
    ELSE Res([r.h EXCEPT !.caches[k + 1] =
                 access_index(@, Unwrap(r.idx), access_type, r.h.ref_counter)],
             r.stall, r.idx)

access_inner(h, k, address, access_type, stall) ==
    LET st == IF stall # None THEN Some(penalty(h, k)) ELSE None
    IN  IF h.panic # "" THEN Res(h, stall, None)
        ELSE IF k = h.n
        THEN Res(h, IF stall # None THEN Some(h.miss_penalty) ELSE None, None)
        ELSE IF ~lookup_ok(CacheAt(h, k), address)
        THEN Res(Panic(h, "lookup index"), stall, None)
        ELSE The({
          IF hit # None
          THEN The({ touch(Res(r.h, r.stall, hit), k, access_type)
                     : r \in {handle_hit(IF stall # None
                                         THEN [h EXCEPT !.caches[k + 1] =
                                                  record_hit(@)]
                                         ELSE h,
                                         k, address, access_type, st)} })
          ELSE touch(handle_miss(IF stall # None
                                 THEN [h EXCEPT !.caches[k + 1] =
                                          record_miss(@)]
                                 ELSE h,
                                 k, address, access_type, st),
                     k, access_type)
          : hit \in {Hier_lookup(h, k, address)} })

\* access that does not count the reference
access_uncounted(h, address, access_type, stall) ==
    access_inner(h, 0, address, access_type, stall)

\* StorageInterface::access
access(h, address, access_type, stall) ==
    access_inner([h EXCEPT !.ref_counter = @ + 1], 0, address, access_type,
                 stall)

penalize_worst(h) ==
    [h EXCEPT !.total_worst_penalty = @ + h.miss_penalty]

(***************************************************************************)
(* Sized accesses of StorageInterface.  Each returns the hierarchy, the    *)
(* value read, the stall sink and err ("" on success); a failed byte       *)
(* access ends the sized access at once, as the ? operator does.           *)
(***************************************************************************)
Acc(h, val, stall, err) == [h |-> h, val |-> val, stall |-> stall, err |-> err]

get8(h, address, stall) ==
    The({ IF r.h.panic # "" THEN Acc(r.h, 0, r.stall, "panic")
          ELSE The({ Acc(r.h, m.val, r.stall, m.err)
                     : m \in {MMU_get8(r.h.mmu, address)} })
          : r \in {access(penalize_worst(h), address, "Read", stall)} })

\* set8 that keeps the byte out of the MMU, as a cache holding data would
set8_held_back(h, address, value, stall) ==
    The({ IF r.h.panic # "" THEN Acc(r.h, 0, r.stall, "panic")
          ELSE Acc(r.h, 0, r.stall, "")
          : r \in {access(penalize_worst(h), address, "Write", stall)} })

set8(h, address, value, stall) ==
    The({ IF r.h.panic # "" THEN Acc(r.h, 0, r.stall, "panic")
          ELSE The({ Acc([r.h EXCEPT !.mmu = m.mmu], 0, r.stall, m.err)
                     : m \in {MMU_set8(r.h.mmu, address, value)} })
          : r \in {access(penalize_worst(h), address, "Write", stall)} })

\* get16 that reports the stall of its second byte
get16_charging_high(h, address, stall) ==
    The({ IF low.err # "" THEN low
          ELSE The({ Acc(high.h, low.val + high.val * 256, high.stall, high.err)
                     : high \in {get8(low.h, wrapping_add(address, 1), stall)} })
          : low \in {get8(h, address, stall)} })

get16(h, address, stall) ==
    The({ IF low.err # "" THEN low
          ELSE The({ IF high.err # ""
                     THEN Acc(high.h, 0, low.stall, high.err)
                     ELSE Acc(high.h, low.val + high.val * 256, low.stall, "")
                     : high \in {get8(low.h, wrapping_add(address, 1), None)} })
          : low \in {get8(h, address, stall)} })

\* the u32 result is kept as the i32 with the same bits
get32(h, address, stall) ==
    The({ IF low.err # "" THEN low
          ELSE The({ IF high.err # ""
                     THEN Acc(high.h, 0, low.stall, high.err)
                     ELSE Acc(high.h,
                              low.val + 65536 * (IF high.val >= 32768
                                                 THEN high.val - 65536
                                                 ELSE high.val),
                              low.stall, "")
                     : high \in {get16(low.h, wrapping_add(address, 2), None)} })
          : low \in {get16(h, address, stall)} })

set16(h, address, value, stall) ==
    The({ IF low.err # "" THEN low
          ELSE The({ Acc(high.h, 0, low.stall, high.err)
                     : high \in {set8(low.h, wrapping_add(address, 1),
                                      (value \div 256) % 256, None)} })
          : low \in {set8(h, address, value % 256, stall)} })

set32(h, address, value, stall) ==
    The({ IF low.err # "" THEN low
          ELSE The({ Acc(high.h, 0, low.stall, high.err)
                     : high \in {set16(low.h, wrapping_add(address, 2),
                                       (value \div 65536) % 65536, None)} })
          : low \in {set16(h, address, value % 65536, stall)} })

\* StorageInterface::get; worst is the worst-case sink
Hier_get(h, address, step, stall, stall_worst) ==
    LET worst == IF stall_worst # None THEN Some(h.miss_penalty) ELSE None
        got(r) == [h |-> r.h, val |-> r.val, stall |-> r.stall,
                   worst |-> worst, err |-> r.err]
    IN  got(CASE step = 1 -> get8(h, address, stall)
              [] step = 2 -> get16(h, address, stall)
              [] step = 4 -> get32(h, address, stall)
              [] OTHER -> Acc(h, 0, stall, "InvalidSize"))

\* StorageInterface::set
Hier_set(h, address, step, value, stall, stall_worst) ==
    LET worst == IF stall_worst # None
                 THEN Some(Unwrap(stall_worst) + h.miss_penalty) ELSE None
        done(r) == [h |-> r.h, val |-> 0, stall |-> r.stall, worst |-> worst,
                    err |-> r.err]
    IN  done(CASE step = 1 -> set8(h, address, value % 256, stall)
               [] step = 2 -> set16(h, address, value % 65536, stall)
               [] step = 4 -> set32(h, address, value, stall)
               [] OTHER -> Acc(h, 0, stall, "InvalidSize"))

(***************************************************************************)
(* The post-run audits                                                     *)
(***************************************************************************)
\* the loops of verify_inclusiveness from level first on: TRUE iff Ok(())
InclusionFrom(h, first) ==
    \A k \in first..(h.n - 1) :
        \A i \in 0..(CacheAt(h, k).policy.block_num - 1) :
            BlockAt(CacheAt(h, k), i).valid =>
                \A k2 \in (k + 1)..(h.n - 1) :
                    lookup(CacheAt(h, k2),
                           get_address(CacheAt(h, k),
                                       BlockAt(CacheAt(h, k), i))) # None

verify_inclusiveness(h) ==
    IF ~h.use_victim_cache THEN InclusionFrom(h, 0) ELSE InclusionFrom(h, 1)

\* verify_exclusiveness: TRUE iff no assert_eq! fails
verify_exclusiveness(h) ==
    \A k \in 0..(h.n - 1) :
        \A i \in 0..(CacheAt(h, k).policy.block_num - 1) :
            BlockAt(CacheAt(h, k), i).valid =>
                \A k2 \in (k + 1)..(h.n - 1) :
                    Hier_lookup(h, k2,
                                get_address(CacheAt(h, k),
                                            BlockAt(CacheAt(h, k), i))) = None

(***************************************************************************)
(* Instruction decoding (instruction/mod.rs, instruction/decode_helper.rs) *)
(* A raw word is the i32 with the bits of the u32.                         *)
(***************************************************************************)
NOP == 19

get_opcode(raw_inst) == raw_inst % 128

get_funct3(raw_inst) == shr(raw_inst, 12) % 8

get_rs1(raw_inst) == shr(raw_inst, 15) % 32

get_rs2(raw_inst) == shr(raw_inst, 20) % 32

get_rd(raw_inst) == shr(raw_inst, 7) % 32

get_funct7(raw_inst) == shr(raw_inst, 25) % 128

\* raw_to_opcode: "" stands for the panic on an unknown opcode
raw_to_opcode(raw_inst) ==
    LET opcode == get_opcode(raw_inst)
    IN  CASE opcode = 55 -> "Lui"
          [] opcode = 23 -> "AuiPc"
          [] opcode = 111 -> "Jal"
          [] opcode = 103 -> "Jalr"
          [] opcode = 99 -> "Branch"
          [] opcode = 3 -> "Load"
          [] opcode = 35 -> "Store"
          [] opcode = 51 -> "Op"
          [] opcode = 19 -> "OpImm"
          [] opcode = 115 -> "System"
          [] OTHER -> ""

opcode_to_format(opcode) ==
    CASE opcode \in {"Lui", "AuiPc"} -> "U"
      [] opcode = "Jal" -> "J"
      [] opcode \in {"Jalr", "Load", "OpImm"} -> "I"
      [] opcode = "Branch" -> "B"
      [] opcode = "Store" -> "S"
      [] opcode = "Op" -> "R"
      [] opcode = "System" -> "Sys"

Attributes(opcode, rs1, rs2, rd, funct3, funct7, imm) ==
    [opcode |-> opcode, rs1 |-> rs1, rs2 |-> rs2, rd |-> rd,
     funct3 |-> funct3, funct7 |-> funct7, imm |-> imm]

parse_format_r(raw_inst) ==
    Attributes(Some(get_opcode(raw_inst)), Some(get_rs1(raw_inst)),
               Some(get_rs2(raw_inst)), Some(get_rd(raw_inst)),
               Some(get_funct3(raw_inst)), Some(get_funct7(raw_inst)), None)

parse_format_i(raw_inst) ==
    LET is_i_star == get_opcode(raw_inst) = 19
                        /\ get_funct3(raw_inst) \in {1, 5}
    IN  Attributes(Some(get_opcode(raw_inst)), Some(get_rs1(raw_inst)), None,
                   Some(get_rd(raw_inst)), Some(get_funct3(raw_inst)), None,
                   IF ~is_i_star THEN Some(shr(raw_inst, 20))
                   ELSE Some(get_rs2(raw_inst)))

parse_format_s(raw_inst) ==
    Attributes(Some(get_opcode(raw_inst)), Some(get_rs1(raw_inst)),
               Some(get_rs2(raw_inst)), None, Some(get_funct3(raw_inst)), None,
               Some(shr(raw_inst, 25) * 32 + (shr(raw_inst, 7) % 32)))

parse_format_b(raw_inst) ==
    Attributes(Some(get_opcode(raw_inst)), Some(get_rs1(raw_inst)),
               Some(get_rs2(raw_inst)), None, Some(get_funct3(raw_inst)), None,
               Some(shr(raw_inst, 31) * 4096 + (shr(raw_inst, 7) % 2) * 2048
                    + (shr(raw_inst, 25) % 64) * 32
                    + (shr(raw_inst, 8) % 16) * 2))

parse_format_u(raw_inst) ==
    Attributes(Some(get_opcode(raw_inst)), None, None, Some(get_rd(raw_inst)),
               None, None, Some(shl(shr(raw_inst, 12), 12)))

parse_format_j(raw_inst) ==
    Attributes(Some(get_opcode(raw_inst)), None, None, Some(get_rd(raw_inst)),
               None, None,
               Some(shr(raw_inst, 31) * 1048576
                    + (shr(raw_inst, 12) % 256) * 4096
                    + (shr(raw_inst, 20) % 2) * 2048
                    + (shr(raw_inst, 21) % 1024) * 2))

parse_format_sys(raw_inst) ==
    Attributes(Some(get_opcode(raw_inst)), Some(10), Some(17), Some(10),
               None, None, None)

\* ((v as i32) << shamt) >> shamt
get_imm_sign_extended(opcode, imm) ==
    LET shamt == CASE opcode \in {"Lui", "AuiPc"} -> 0
                   [] opcode = "Jal" -> 12
                   [] opcode = "Branch" -> 19
                   [] OTHER -> 20
    IN  IF imm = None THEN None
        ELSE Some(shl(Unwrap(imm), shamt) \div Pow2(shamt))

\* get_function: "" stands for the panic "Failed to decode instruction"
get_function(opcode, raw_inst) ==
    LET funct3 == get_funct3(raw_inst)
        bit30 == shr(raw_inst, 30) % 2
    IN  CASE opcode = "Lui" -> "LUI"
          [] opcode = "AuiPc" -> "AUIPC"
          [] opcode = "Jal" -> "JAL"
          [] opcode = "Jalr" -> "JALR"
          [] opcode = "System" -> "ECALL"
          [] opcode = "Branch" ->
                (CASE funct3 = 0 -> "BEQ" [] funct3 = 1 -> "BNE"
                   [] funct3 = 4 -> "BLT" [] funct3 = 5 -> "BGE"
                   [] funct3 = 6 -> "BLTU" [] funct3 = 7 -> "BGEU"
                   [] OTHER -> "")
          [] opcode = "Load" ->
                (CASE funct3 = 0 -> "LB" [] funct3 = 1 -> "LH"
                   [] funct3 = 2 -> "LW" [] funct3 = 4 -> "LBU"
                   [] funct3 = 5 -> "LHU" [] OTHER -> "")
          [] opcode = "Store" ->
                (CASE funct3 = 0 -> "SB" [] funct3 = 1 -> "SH"
                   [] funct3 = 2 -> "SW" [] OTHER -> "")
          [] opcode = "OpImm" ->
                (CASE funct3 = 0 -> "ADDI" [] funct3 = 2 -> "SLTI"
                   [] funct3 = 3 -> "SLTIU" [] funct3 = 4 -> "XORI"
                   [] funct3 = 6 -> "ORI" [] funct3 = 7 -> "ANDI"
                   [] funct3 = 1 -> "SLLI"
                   [] funct3 = 5 -> IF bit30 = 0 THEN "SRLI" ELSE "SRAI")
          [] opcode = "Op" ->
                (CASE funct3 = 0 -> IF bit30 = 0 THEN "ADD" ELSE "SUB"
                   [] funct3 = 1 -> "SLL" [] funct3 = 2 -> "SLT"
                   [] funct3 = 3 -> "SLTU" [] funct3 = 4 -> "XOR"
                   [] funct3 = 5 -> IF bit30 = 0 THEN "SRL" ELSE "SRA"
                   [] funct3 = 6 -> "OR" [] funct3 = 7 -> "AND")

get_controls(opcode, function) ==
    [branch |-> opcode \in {"Branch", "Jal", "Jalr"},
     mem_read |-> opcode = "Load",
     mem_write |-> opcode = "Store",
     reg_write |-> opcode \notin {"Branch", "Store"},
     mem_step |-> CASE function \in {"LB", "LBU", "SB"} -> 1
                    [] function \in {"LH", "LHU", "SH"} -> 2
                    [] function \in {"LW", "SW"} -> 4
                    [] OTHER -> 0,
     alu_op |-> CASE function \in {"JAL", "BEQ"} -> "BEQ"
                  [] function \in {"BNE", "BLT", "BGE", "BLTU", "BGEU", "SUB",
                                   "SLL", "SLT", "SLTU", "XOR", "SRL", "SRA",
                                   "OR", "AND"} -> function
                  [] function = "SLTI" -> "SLT"
                  [] function = "SLTIU" -> "SLTU"
                  [] function = "XORI" -> "XOR"
                  [] function = "ORI" -> "OR"
                  [] function = "ANDI" -> "AND"
                  [] function = "SLLI" -> "SLL"
                  [] function = "SRLI" -> "SRL"
                  [] function = "SRAI" -> "SRA"
                  [] OTHER -> "ADD",
     alu_src |-> IF opcode \in {"Branch", "Op", "Jal"} THEN "REG" ELSE "IMM"]

\* parse: the attributes of the format with the sign-extended immediate
parse(opcode, raw_inst) ==
    LET format == opcode_to_format(opcode)
        attributes == CASE format = "R" -> parse_format_r(raw_inst)
                        [] format = "I" -> parse_format_i(raw_inst)
                        [] format = "S" -> parse_format_s(raw_inst)
                        [] format = "B" -> parse_format_b(raw_inst)
                        [] format = "U" -> parse_format_u(raw_inst)
                        [] format = "J" -> parse_format_j(raw_inst)
                        [] format = "Sys" -> parse_format_sys(raw_inst)
    IN  [attributes EXCEPT !.imm = get_imm_sign_extended(opcode, @)]

\* Instruction::new fails (DecodeError is not "") or returns the instruction
DecodeError(raw_inst) ==
    IF raw_to_opcode(raw_inst) = "" THEN "Unknown opcode"
    ELSE IF get_function(raw_to_opcode(raw_inst), raw_inst) = ""
    THEN "Failed to decode instruction"
    ELSE ""

Instruction_new(raw_inst) ==
    LET opcode == raw_to_opcode(raw_inst)
        function == get_function(opcode, raw_inst)
    IN  [raw_inst |-> raw_inst, opcode |-> opcode,
         format |-> opcode_to_format(opcode), function |-> function,
         attributes |-> parse(opcode, raw_inst),
         controls |-> get_controls(opcode, function)]

Instruction_default == Instruction_new(NOP)

(***************************************************************************)
(* ALU (alu.rs).  A shift by an amount outside 0..31 panics in a build     *)
(* with overflow checks (SLL, SRL) and takes the amount modulo 32 in one   *)
(* without; alu gives the unchecked result, alu_overflow the panic.        *)
(***************************************************************************)
alu_overflow(inst, op1, op2) ==
    inst.controls.alu_op \in {"SLL", "SRL"} /\ op2 \notin 0..31

alu(inst, op1, op2) ==
    LET alu_op == inst.controls.alu_op
        bool(b) == IF b THEN 1 ELSE 0
    IN  CASE alu_op = "ADD" -> wrapping_add(op1, op2)
          [] alu_op = "SUB" -> wrapping_sub(op1, op2)
          [] alu_op \in {"AND", "OR", "XOR"} -> bitwise(alu_op, op1, op2)
          [] alu_op = "BEQ" -> bool(op1 # op2)
          [] alu_op = "BNE" -> bool(op1 = op2)
          [] alu_op = "BLT" -> bool(~(op1 < op2))
          [] alu_op = "BLTU" -> bool(~ult(op1, op2))
          [] alu_op = "BGE" -> bool(~(op1 >= op2))
          [] alu_op = "BGEU" -> bool(ult(op1, op2))
          [] alu_op = "SLL" -> shl(op1, op2 % 32)
          [] alu_op = "SRL" -> shr(op1, op2 % 32)
          [] alu_op = "SRA" -> wrapping_shr(op1, op2 % 32)
          [] alu_op = "SLT" -> bool(op1 < op2)
          [] alu_op = "SLTU" -> bool(ult(op1, op2))

(***************************************************************************)
(* Branch predictor (pipelined/branch_predictor.rs).  The buffer is kept   *)
(* sparse: an entry that was never updated holds the state new gave it.    *)
(***************************************************************************)
PREDICTOR_BUFFER_SIZE == 4096

StronglyTaken == 0

WeaklyTaken == 1

WeaklyNotTaken == 2

StronglyNotTaken == 3

\* a predictor whose entries start Strong-NotTaken
BranchPredictor_cold(heuristic) ==
    [heuristic |-> heuristic, initial |-> StronglyNotTaken,
     buffer |-> EmptyMap]

BranchPredictor_new(heuristic) ==
    [heuristic |-> heuristic, initial |-> WeaklyTaken, buffer |-> EmptyMap]

\* self.buffer[index]
BufferAt(bp, index) ==
    IF index \in DOMAIN bp.buffer THEN bp.buffer[index] ELSE bp.initial

\* predict that reads the entry whatever the heuristic
predict_buffered(bp, pc) ==
    BufferAt(bp, pc % PREDICTOR_BUFFER_SIZE) \in {StronglyTaken, WeaklyTaken}

predict(bp, pc) ==
    IF bp.heuristic # "BufferedPrediction" THEN FALSE
    ELSE BufferAt(bp, pc % PREDICTOR_BUFFER_SIZE)
             \in {StronglyTaken, WeaklyTaken}

\* update that jumps to the strong state of the observed direction
update_jumping(bp, pc, branch) ==
    IF bp.heuristic # "BufferedPrediction" THEN bp
    ELSE [bp EXCEPT !.buffer =
             Put(@, pc % PREDICTOR_BUFFER_SIZE,
                 IF branch THEN StronglyTaken ELSE StronglyNotTaken)]

update(bp, pc, branch) ==
    IF bp.heuristic # "BufferedPrediction" THEN bp
    ELSE LET index == pc % PREDICTOR_BUFFER_SIZE
             state == BufferAt(bp, index)
         IN  [bp EXCEPT !.buffer =
                 Put(@, index,
                     IF branch
                     THEN CASE state = StronglyNotTaken -> WeaklyNotTaken
                            [] state = WeaklyNotTaken -> WeaklyTaken
                            [] state = WeaklyTaken -> StronglyTaken
                            [] state = StronglyTaken -> StronglyTaken
                     ELSE CASE state = StronglyTaken -> WeaklyTaken
                            [] state = WeaklyTaken -> WeaklyNotTaken
                            [] state = WeaklyNotTaken -> StronglyNotTaken
                            [] state = StronglyNotTaken -> StronglyNotTaken)]

(***************************************************************************)
(* CPU state (cpu.rs) and the loader (loader.rs, run_wrapper.rs)           *)
(***************************************************************************)
CPUState_make(policy) ==
    [stack_base |-> 0, stack_size |-> 0, pc |-> 0,
     gpr |-> [i \in 0..31 |-> 0], policy |-> policy,
     history |-> [cycle_count |-> 0, mem_stall_count |-> 0,
                  mem_stall_worst_count |-> 0, inst_count |-> 0]]

\* the comparison of sp and the end of the stack as signed values
stack_overflow_signed(cpu) ==
    cpu.gpr[2] < wrapping_sub(cpu.stack_base, cpu.stack_size)

stack_overflow(cpu) ==
    ult(cpu.gpr[2], wrapping_sub(cpu.stack_base, cpu.stack_size))

\* 0x80000000
STACK_BASE == -2147483647 - 1

STACK_SIZE == 4194304

\* the pages of (stack_base - stack_size, stack_base], allocated and zeroed
stack_pages(mmu, stack_base, stack_size) ==
    LET first == shr(wrapping_add(wrapping_sub(stack_base, stack_size), 1),
                     PAGE_WIDTH)
        last == shr(stack_base, PAGE_WIDTH)
        is == (first \div SECOND_LEVEL_SIZE)..(last \div SECOND_LEVEL_SIZE)
        in_stack(i, j) == (i * SECOND_LEVEL_SIZE + j) \in first..last
        js(i) == {j \in 0..(SECOND_LEVEL_SIZE - 1) : in_stack(i, j)}
        old(i) == IF i \in DOMAIN mmu.data THEN mmu.data[i] ELSE EmptyMap
        second(i) == [j \in DOMAIN old(i) \cup js(i) |->
                         IF in_stack(i, j) THEN EmptyMap ELSE old(i)[j]]
    IN  [data |-> [i \in DOMAIN mmu.data \cup is |-> second(i)]]

\* loader::set_stack: << cpu, mmu >>
set_stack(cpu, mmu, stack_base, stack_size) ==
    << [cpu EXCEPT !.stack_base = stack_base, !.stack_size = stack_size,
                   !.gpr[2] = stack_base],
       stack_pages(mmu, stack_base, stack_size) >>

\* the byte that load_elf stores at file offset k of a segment; a segment is
\* its virtual address, the words of its file image and its memory size
segment_byte(segment, k) ==
    IF k < 4 * Len(segment.words)
    THEN shr(segment.words[(k \div 4) + 1], 8 * (k % 4)) % 256
    ELSE 0

\* the segment loop of load_elf: every page of the segment is allocated when
\* missing and every byte of [virtual_address, virtual_address + memory_size)
\* is set, the file image first and zeros after it
load_segment(mmu, segment) ==
    LET addrs == {wrapping_add(segment.virtual_address, k) :
                     k \in 0..(segment.memory_size - 1)}
        is == {get_first_level_index(a) : a \in addrs}
        js(i) == {get_second_level_index(a) :
                     a \in {b \in addrs : get_first_level_index(b) = i}}
        ks(i, j) == {a \in addrs : /\ get_first_level_index(a) = i
                                   /\ get_second_level_index(a) = j}
        old2(i) == IF i \in DOMAIN mmu.data THEN mmu.data[i] ELSE EmptyMap
        old3(i, j) == IF j \in DOMAIN old2(i) THEN old2(i)[j] ELSE EmptyMap
        page(i, j) ==
            [k \in DOMAIN old3(i, j) \cup {get_page_offset(a) : a \in ks(i, j)}
                |-> IF \E a \in ks(i, j) : get_page_offset(a) = k
                    THEN LET a == CHOOSE b \in ks(i, j) : get_page_offset(b) = k
                         IN  segment_byte(segment,
                                 wrapping_sub(a, segment.virtual_address))
                    ELSE old3(i, j)[k]]
        second(i) == [j \in DOMAIN old2(i) \cup js(i) |->
                         IF j \in js(i) THEN page(i, j) ELSE old2(i)[j]]
    IN  [data |-> [i \in DOMAIN mmu.data \cup is |->
                      IF i \in is THEN second(i) ELSE mmu.data[i]]]

\* loader::load_elf: << cpu, mmu >>
load_elf(cpu, mmu, elf) ==
    << [cpu EXCEPT !.pc = elf.entry], load_segment(mmu, elf.segment) >>

(***************************************************************************)
(* System calls (system_call.rs).  Standard output is the sequence out of  *)
(* the items printed; standard input is the sequence stdin still unread.   *)
(* x is the machine: a record with cpu, mem, out, stdin, err and val.      *)
(***************************************************************************)
RECURSIVE print_string(_, _)
print_string(x, address) ==
    LET got(r) ==
            IF r.err # "" THEN [x EXCEPT !.mem = r.h, !.err = r.err]
            ELSE IF r.val = 0 THEN [x EXCEPT !.mem = r.h]
            ELSE print_string([x EXCEPT !.mem = r.h,
                                        !.out = Append(@, << "char", r.val >>)],
                              wrapping_add(address, 1))
    IN  got(Hier_get(x.mem, address, 1, None, None))

syscall(op1, op2, x) ==
    CASE op2 = 0 -> [print_string(x, op1) EXCEPT !.val = op1]
      [] op2 = 1 -> [x EXCEPT !.out = Append(@, << "char", op1 % 256 >>),
                              !.val = op1]
      [] op2 = 2 -> [x EXCEPT !.out = Append(@, << "int", op1 >>), !.val = op1]
      [] op2 = 3 -> [x EXCEPT !.val = op1]
      [] op2 \in {4, 5} ->
            IF x.stdin = << >> THEN [x EXCEPT !.err = "scan"]
            ELSE [x EXCEPT !.val = Head(x.stdin), !.stdin = Tail(@)]
      [] OTHER -> [x EXCEPT !.err = "UnknownSystemCall"]

(***************************************************************************)
(* The five stage kernels (stages_simple.rs).  A kernel that fails leaves  *)
(* its reason in err, and every later kernel of the cycle is skipped.      *)
(***************************************************************************)
unwrap_or(o, default) == IF o = None THEN default ELSE Unwrap(o)

charge(x, r) ==
    [x EXCEPT !.mem = r.h,
              !.cpu.history.mem_stall_count = @ + Unwrap(r.stall),
              !.cpu.history.mem_stall_worst_count = @ + Unwrap(r.worst)]

instruction_fetch(pc, x) ==
    LET got(r) ==
            IF r.err # "" THEN [x EXCEPT !.mem = r.h, !.err = r.err]
            ELSE IF r.val = 0
            THEN [charge(x, r) EXCEPT !.err = "Instruction fetch failed"]
            ELSE [charge(x, r) EXCEPT !.val = r.val]
    IN  IF x.err # "" THEN x
        ELSE got(Hier_get(x.mem, pc, 4, Some(0), Some(0)))

register_read(inst, cpu) ==
    << cpu.gpr[unwrap_or(inst.attributes.rs1, 0)],
       cpu.gpr[unwrap_or(inst.attributes.rs2, 0)] >>

\* the history of a run: executed, the instructions EX was called for with
\* the register operands it was given, and loaded, the values the loads
\* returned; both are written, never read, by the drivers
Log(x, pc, inst, op1, op2) ==
    IF x.err # "" THEN x
    ELSE
    [x EXCEPT !.executed = Append(@, [pc |-> pc, raw_inst |-> inst.raw_inst,
                                      op1 |-> op1, op2 |-> op2])]

execute(x, inst, op1, op2) ==
    LET x1 == [x EXCEPT !.cpu.history.inst_count = @ + 1]
        src2 == IF inst.controls.alu_src = "REG" THEN op2
                ELSE Unwrap(inst.attributes.imm)
    IN  IF x.err # "" THEN x
        ELSE IF inst.opcode = "System" THEN syscall(op1, op2, x1)
        ELSE IF x.overflow_checks /\ alu_overflow(inst, op1, src2)
        THEN [x1 EXCEPT !.err = "attempt to shift with overflow"]
        ELSE [x1 EXCEPT !.val = alu(inst, op1, src2)]

memory_access(pc, inst, x, exec_result, op2) ==
    LET mem_step == inst.controls.mem_step
        imm == unwrap_or(inst.attributes.imm, 0)
        done(r) ==
            IF r.err # "" THEN [x EXCEPT !.mem = r.h, !.err = r.err]
            ELSE [charge(x, r) EXCEPT
                    !.loaded = IF inst.controls.mem_read
                               THEN Append(@, [pc |-> pc, val |-> r.val])
                               ELSE @,
                    !.val =
                     IF inst.controls.mem_read THEN r.val
                     ELSE CASE inst.function = "LUI" -> imm
                            [] inst.function = "AUIPC" -> wrapping_add(pc, imm)
                            [] inst.function \in {"JAL", "JALR"} ->
                                  wrapping_add(pc, 4)
                            [] OTHER -> exec_result]
    IN  IF x.err # "" THEN x
        ELSE done(IF inst.controls.mem_read
                  THEN Hier_get(x.mem, exec_result, mem_step, Some(0), Some(0))
                  ELSE IF inst.controls.mem_write
                  THEN Hier_set(x.mem, exec_result, mem_step, op2, Some(0),
                                Some(0))
                  ELSE [h |-> x.mem, val |-> 0, stall |-> Some(0),
                        worst |-> Some(0), err |-> ""])

\* write_back that writes whatever rd is
write_back_any(inst, x, wb_result) ==
    IF x.err = "" /\ inst.controls.reg_write
    THEN [x EXCEPT !.cpu.gpr[Unwrap(inst.attributes.rd)] = wb_result]
    ELSE x

write_back(inst, x, wb_result) ==
    IF x.err = "" /\ inst.controls.reg_write /\ Unwrap(inst.attributes.rd) # 0
    THEN [x EXCEPT !.cpu.gpr[Unwrap(inst.attributes.rd)] = wb_result]
    ELSE x

(***************************************************************************)
(* Pipeline registers and hazards (pipelined/pipeline.rs)                  *)
(***************************************************************************)
PipelineState_default ==
    [if_id |-> [pc |-> 0, raw_inst |-> NOP],
     id_ex |-> [pc |-> 0, inst |-> Instruction_default, op1 |-> 0, op2 |-> 0,
                taken_pc |-> None],
     ex_mem |-> [pc |-> 0, inst |-> Instruction_default, exec_result |-> 0,
                 op2 |-> 0, taken_pc |-> None, exit_pc |-> None],
     mem_wb |-> [pc |-> 0, inst |-> Instruction_default, wb_result |-> 0]]

\* the opcodes whose write-back value is known only after MEM
late_result(state) ==
    state.id_ex.inst.opcode \in {"Lui", "AuiPc", "Jal", "Jalr", "Load"}

\* mem_hazard_op1 that never forwards
mem_hazard_never(state) == FALSE

\* load_hazard of the loads alone
load_hazard_of_loads(state) ==
    /\ state.id_ex.inst.opcode = "Load"
    /\ LET if_id_inst == Instruction_new(state.if_id.raw_inst)
       IN  \/ if_id_inst.attributes.rs1 = state.id_ex.inst.attributes.rd
           \/ if_id_inst.attributes.rs2 = state.id_ex.inst.attributes.rd

\* load_hazard that never stalls
load_hazard_never(state) == FALSE

\* load_hazard when Instruction::new of the IF/ID word succeeds
load_hazard(state) ==
    /\ late_result(state)
    /\ LET if_id_inst == Instruction_new(state.if_id.raw_inst)
       IN  \/ if_id_inst.attributes.rs1 = state.id_ex.inst.attributes.rd
           \/ if_id_inst.attributes.rs2 = state.id_ex.inst.attributes.rd

ex_hazard_op1(state) ==
    /\ state.id_ex.inst.attributes.rs1 # Some(0)
    /\ state.ex_mem.inst.controls.reg_write
    /\ state.ex_mem.inst.attributes.rd = state.id_ex.inst.attributes.rs1

ex_hazard_op2(state) ==
    /\ state.id_ex.inst.attributes.rs2 # Some(0)
    /\ state.ex_mem.inst.controls.reg_write
    /\ state.ex_mem.inst.attributes.rd = state.id_ex.inst.attributes.rs2

mem_hazard_op1(state) ==
    /\ state.id_ex.inst.attributes.rs1 # Some(0)
    /\ state.mem_wb.inst.controls.reg_write
    /\ state.mem_wb.inst.attributes.rd = state.id_ex.inst.attributes.rs1

mem_hazard_op2(state) ==
    /\ state.id_ex.inst.attributes.rs2 # Some(0)
    /\ state.mem_wb.inst.controls.reg_write
    /\ state.mem_wb.inst.attributes.rd = state.id_ex.inst.attributes.rs2

wb_hazard_op1(state, inst) ==
    /\ inst.attributes.rs1 # Some(0)
    /\ state.mem_wb.inst.controls.reg_write
    /\ inst.attributes.rs1 = state.mem_wb.inst.attributes.rd

wb_hazard_op2(state, inst) ==
    /\ inst.attributes.rs2 # Some(0)
    /\ state.mem_wb.inst.controls.reg_write
    /\ inst.attributes.rs2 = state.mem_wb.inst.attributes.rd

(***************************************************************************)
(* The pipelined stages (pipelined/stages.rs).  m is the pipelined         *)
(* machine: the fields of x with current_state, next_state,                *)
(* branch_predictor and predicted_branch_taken, the locals of run.         *)
(***************************************************************************)
stages_instruction_fetch(m) ==
    LET pc == m.cpu.pc
        fetched(f) ==
            IF f.err # "" THEN f
            ELSE [f EXCEPT !.next_state.if_id = [pc |-> pc, raw_inst |-> f.val]]
    IN  fetched(instruction_fetch(pc, [m EXCEPT !.cpu.pc = wrapping_add(pc, 4)]))

stages_instruction_decode(m) ==
    LET raw_inst == m.current_state.if_id.raw_inst
        pc == m.current_state.if_id.pc
        decoded(inst, error) ==
            IF error # "" THEN [m EXCEPT !.err = error]
            ELSE [m EXCEPT !.next_state.id_ex =
                     [pc |-> pc, inst |-> inst,
                      op1 |-> IF wb_hazard_op1(m.current_state, inst)
                              THEN m.current_state.mem_wb.wb_result
                              ELSE m.cpu.gpr[unwrap_or(inst.attributes.rs1, 0)],
                      op2 |-> IF wb_hazard_op2(m.current_state, inst)
                              THEN m.current_state.mem_wb.wb_result
                              ELSE m.cpu.gpr[unwrap_or(inst.attributes.rs2, 0)],
                      taken_pc |-> IF inst.opcode = "Branch"
                                   THEN Some(wrapping_add(
                                           pc, Unwrap(inst.attributes.imm)))
                                   ELSE None]]
    IN  IF m.err # "" THEN m
        ELSE decoded(Instruction_new(raw_inst), DecodeError(raw_inst))

stages_execute(m) ==
    LET state == m.current_state
        op1 == IF ex_hazard_op1(state) THEN state.ex_mem.exec_result
               ELSE IF mem_hazard_op1(state) THEN state.mem_wb.wb_result
               ELSE state.id_ex.op1
        op2 == IF ex_hazard_op2(state) THEN state.ex_mem.exec_result
               ELSE IF mem_hazard_op2(state) THEN state.mem_wb.wb_result
               ELSE state.id_ex.op2
        executed(e) ==
            IF e.err # "" THEN e
            ELSE [e EXCEPT !.next_state.ex_mem =
                     [pc |-> state.id_ex.pc, inst |-> state.id_ex.inst,
                      exec_result |-> e.val, op2 |-> op2,
                      taken_pc |-> state.id_ex.taken_pc,
                      exit_pc |-> @.exit_pc]]
    IN  executed(execute(Log(m, state.id_ex.pc, state.id_ex.inst, op1, op2),
                         state.id_ex.inst, op1, op2))

stages_memory_access(m) ==
    LET state == m.current_state
        accessed(a) ==
            IF a.err # "" THEN a
            ELSE [a EXCEPT !.next_state.mem_wb =
                     [pc |-> state.ex_mem.pc, inst |-> state.ex_mem.inst,
                      wb_result |-> a.val]]
    IN  accessed(memory_access(state.ex_mem.pc, state.ex_mem.inst, m,
                               state.ex_mem.exec_result, state.ex_mem.op2))

stages_write_back(m) ==
    write_back(m.current_state.mem_wb.inst, m, m.current_state.mem_wb.wb_result)

(***************************************************************************)
(* The pipelined driver (pipelined/mod.rs): one iteration of the loop of   *)
(* run.  resolved is the history of the BRANCH resolutions of EX: it is    *)
(* written, never read, by the driver.                                     *)
(***************************************************************************)
\* a branch resolution that never redirects and never flushes
resolve_branch_never(m) == m

\* a resolution that repairs the jumps and trusts every prediction
resolve_branch_of_jumps(m) ==
    LET ex_mem == m.next_state.ex_mem
        exec_inst == ex_mem.inst
        exec_pc == ex_mem.pc
        conditional == exec_inst.opcode = "Branch"
        branch_taken == ~(conditional /\ ex_mem.exec_result # 0)
        actual_new_pc ==
            IF ~branch_taken THEN wrapping_add(exec_pc, 4)
            ELSE IF exec_inst.opcode = "Jalr"
            THEN ex_mem.exec_result - (ex_mem.exec_result % 2)
            ELSE IF conditional THEN Unwrap(ex_mem.taken_pc)
            ELSE wrapping_add(exec_pc, Unwrap(exec_inst.attributes.imm))
        do_jump == ~conditional
        m1 == IF conditional
              THEN [m EXCEPT
                      !.branch_predictor = update(@, exec_pc, branch_taken),
                      !.resolved = Append(@,
                          [pc |-> exec_pc, branch_taken |-> branch_taken,
                           predicted_branch_taken |-> m.predicted_branch_taken,
                           do_jump |-> do_jump])]
              ELSE m
    IN  IF ~exec_inst.controls.branch THEN m
        ELSE IF do_jump
        THEN [m1 EXCEPT !.cpu.pc = actual_new_pc,
                        !.next_state.if_id.raw_inst = NOP,
                        !.next_state.id_ex.inst = Instruction_default,
                        !.cpu.history.inst_count = @ - 2]
        ELSE m1

\* a resolution that reads a comparator result of 0 as not taken
resolve_branch_inverted(m) ==
    LET ex_mem == m.next_state.ex_mem
        exec_inst == ex_mem.inst
        exec_pc == ex_mem.pc
        conditional == exec_inst.opcode = "Branch"
        branch_taken == ~(conditional /\ ex_mem.exec_result = 0)
        actual_new_pc ==
            IF ~branch_taken THEN wrapping_add(exec_pc, 4)
            ELSE IF exec_inst.opcode = "Jalr"
            THEN ex_mem.exec_result - (ex_mem.exec_result % 2)
            ELSE IF conditional THEN Unwrap(ex_mem.taken_pc)
            ELSE wrapping_add(exec_pc, Unwrap(exec_inst.attributes.imm))
        do_jump == ~(conditional /\ branch_taken = m.predicted_branch_taken)
        m1 == IF conditional
              THEN [m EXCEPT
                      !.branch_predictor = update(@, exec_pc, branch_taken),
                      !.resolved = Append(@,
                          [pc |-> exec_pc, branch_taken |-> branch_taken,
                           predicted_branch_taken |-> m.predicted_branch_taken,
                           do_jump |-> do_jump])]
              ELSE m
    IN  IF ~exec_inst.controls.branch THEN m
        ELSE IF do_jump
        THEN [m1 EXCEPT !.cpu.pc = actual_new_pc,
                        !.next_state.if_id.raw_inst = NOP,
                        !.next_state.id_ex.inst = Instruction_default,
                        !.cpu.history.inst_count = @ - 2]
        ELSE m1

\* the branch resolution that follows EX
resolve_branch(m) ==
    LET ex_mem == m.next_state.ex_mem
        exec_inst == ex_mem.inst
        exec_pc == ex_mem.pc
        conditional == exec_inst.opcode = "Branch"
        branch_taken == ~(conditional /\ ex_mem.exec_result # 0)
        actual_new_pc ==
            IF ~branch_taken THEN wrapping_add(exec_pc, 4)
            ELSE IF exec_inst.opcode = "Jalr"
            THEN ex_mem.exec_result - (ex_mem.exec_result % 2)
            ELSE IF conditional THEN Unwrap(ex_mem.taken_pc)
            ELSE wrapping_add(exec_pc, Unwrap(exec_inst.attributes.imm))
        do_jump == ~(conditional /\ branch_taken = m.predicted_branch_taken)
        m1 == IF conditional
              THEN [m EXCEPT
                      !.branch_predictor = update(@, exec_pc, branch_taken),
                      !.resolved = Append(@,
                          [pc |-> exec_pc, branch_taken |-> branch_taken,
                           predicted_branch_taken |-> m.predicted_branch_taken,
                           do_jump |-> do_jump])]
              ELSE m
    IN  IF ~exec_inst.controls.branch THEN m
        ELSE IF do_jump
        THEN [m1 EXCEPT !.cpu.pc = actual_new_pc,
                        !.next_state.if_id.raw_inst = NOP,
                        !.next_state.id_ex.inst = Instruction_default,
                        !.cpu.history.inst_count = @ - 2]
        ELSE m1

\* a prediction step that redirects the fetch and keeps the word already
\* fetched in IF/ID
predict_branch_unflushed(m) ==
    LET id_ex == m.next_state.id_ex
    IN  IF id_ex.inst.opcode = "Branch" /\ predict(m.branch_predictor, id_ex.pc)
        THEN [m EXCEPT !.cpu.pc = Unwrap(id_ex.taken_pc),
                       !.cpu.history.inst_count = @ - 1,
                       !.predicted_branch_taken = TRUE]
        ELSE [m EXCEPT !.predicted_branch_taken = FALSE]

\* the prediction for the instruction that enters ID/EX
predict_branch(m) ==
    LET id_ex == m.next_state.id_ex
    IN  IF id_ex.inst.opcode = "Branch" /\ predict(m.branch_predictor, id_ex.pc)
        THEN [m EXCEPT !.cpu.pc = Unwrap(id_ex.taken_pc),
                       !.next_state.if_id.raw_inst = NOP,
                       !.cpu.history.inst_count = @ - 1,
                       !.predicted_branch_taken = TRUE]
        ELSE [m EXCEPT !.predicted_branch_taken = FALSE]

\* a front end whose stall leaves the instruction in ID/EX where it is
front_end_holding(m) ==
    LET m1 == [m EXCEPT !.cpu.history.cycle_count = @ + 1]
        hazard_error == IF late_result(m.current_state)
                        THEN DecodeError(m.current_state.if_id.raw_inst)
                        ELSE ""
    IN  IF hazard_error # "" THEN [m1 EXCEPT !.err = hazard_error]
        ELSE IF load_hazard(m.current_state)
        THEN [m1 EXCEPT !.cpu.history.inst_count = @ - 1]
        ELSE stages_instruction_decode(stages_instruction_fetch(m1))

\* IF and ID of the cycle, or the NOP of a load hazard, after the cycle is
\* counted
front_end(m) ==
    LET m1 == [m EXCEPT !.cpu.history.cycle_count = @ + 1]
        hazard_error == IF late_result(m.current_state)
                        THEN DecodeError(m.current_state.if_id.raw_inst)
                        ELSE ""
    IN  IF hazard_error # "" THEN [m1 EXCEPT !.err = hazard_error]
        ELSE IF load_hazard(m.current_state)
        THEN [m1 EXCEPT !.next_state.id_ex.inst = Instruction_default,
                        !.cpu.history.inst_count = @ - 1]
        ELSE stages_instruction_decode(stages_instruction_fetch(m1))

\* EX, MEM and WB of the cycle
back_end(m) == stages_write_back(stages_memory_access(stages_execute(m)))

pipelined_run(m) ==
    IF stack_overflow(m.cpu) THEN [m EXCEPT !.err = "Stack overflow"]
    ELSE The({
      IF m3.err # "" THEN m3
      ELSE IF /\ m3.next_state.ex_mem.inst.opcode = "System"
              /\ m3.next_state.ex_mem.op2 = 3
      THEN [m3 EXCEPT !.status = "returned",
                      !.ret = Some(m3.next_state.ex_mem.pc)]
      ELSE The({ [m4 EXCEPT !.current_state = m4.next_state]
                 : m4 \in {predict_branch(resolve_branch(m3))} })
      : m3 \in {back_end(front_end(m))} })

(***************************************************************************)
(* The single-cycle driver (single_cycle.rs): one iteration of the loop    *)
(***************************************************************************)
single_cycle_run(s) ==
    LET pc == s.cpu.pc
    IN  IF stack_overflow(s.cpu) THEN [s EXCEPT !.err = "Stack overflow"]
        ELSE The({
          IF f.err # "" THEN f
          ELSE IF DecodeError(f.val) # ""
          THEN [f EXCEPT !.err = DecodeError(f.val)]
          ELSE The({ The({ The({ The({ The({
            IF w.err # "" THEN w
            ELSE IF inst.opcode = "System" /\ rs[2] = 3
            THEN [w EXCEPT !.status = "returned", !.ret = Some(pc)]
            ELSE IF /\ inst.controls.branch
                    /\ ~(inst.opcode = "Branch" /\ e.val # 0)
            THEN [w EXCEPT !.cpu.pc =
                     IF inst.opcode = "Jalr" THEN e.val - (e.val % 2)
                     ELSE wrapping_add(pc, Unwrap(inst.attributes.imm))]
            ELSE w
            : w \in {write_back(inst, a, a.val)} })
            : a \in {memory_access(pc, inst, e, e.val, rs[2])} })
            : e \in {execute(Log(f, pc, inst, rs[1], rs[2]), inst, rs[1],
                             rs[2])} })
            : rs \in {register_read(inst, f.cpu)} })
            : inst \in {Instruction_new(f.val)} })
          : f \in {instruction_fetch(
                      pc, [s EXCEPT !.cpu.history.cycle_count = @ + 1,
                                    !.cpu.pc = wrapping_add(pc, 4)])} })

\* a run that failed (a panic or an error that reached the caller) is over
settle(x) == IF x.err # "" THEN [x EXCEPT !.status = "failed"] ELSE x

(***************************************************************************)
(* State.  hier and trace: a storage hierarchy and the accesses made       *)
(* through it.  program, pipe and single: a loaded program and the         *)
(* machines of the two drivers running it.  predictor and observed: a      *)
(* branch predictor and the last call made on it.  memory: a bare MMU.     *)
(* call: the last call made on the decoder, the ALU or the MMU, with its   *)
(* result.                                                                 *)
(***************************************************************************)
VARIABLES hier, trace, program, pipe, single, predictor, observed, memory,
          call

vars ==
    << hier, trace, program, pipe, single, predictor, observed, memory, call >>

cacheVars == << hier, trace >>

machineVars == << program, pipe, single >>

predictorVars == << predictor, observed >>

unitVars == << memory, call >>

\* the value of the variables a specification does not use
Idle == << >>

(***************************************************************************)
(* Hierarchies driven by a trace of sized accesses, as run_trace and the   *)
(* unit test drive them: the pages of the trace are allocated first.       *)
(***************************************************************************)
MaxAccesses == 4

MaxDefaultAccesses == 3

TinyPolicies ==
    << CachePolicy_make(2, 2, 1, 1),
       CachePolicy_make(4, 2, 2, 8),
       CachePolicy_make(8, 2, 2, 20) >>

MiniPolicies ==
    << CachePolicy_make(2, 2, 1, 1),
       CachePolicy_make(2, 2, 1, 8),
       CachePolicy_make(2, 2, 1, 20) >>

InclusiveHierarchies ==
    { InclusiveCache_make(TinyPolicies, "WriteBack", "WriteAllocate", 100, FALSE),
      InclusiveCache_make(TinyPolicies, "WriteThrough", "WriteNoAllocate", 100,
                          FALSE) }

ExclusiveHierarchies ==
    { ExclusiveCache_make(TinyPolicies, 100),
      ExclusiveCache_make(MiniPolicies, 100) }

DefaultHierarchies ==
    { InclusiveCache_default,
      [InclusiveCache_default EXCEPT !.use_victim_cache = TRUE],
      ExclusiveCache_default }

SmallAddrs == {0, 2, 4, 8}

\* the addresses offered to the small hierarchies with a victim cache: three
\* lines that share a set of a first level of up to eight sets
VictimAddrs == {0, 4, 16}

\* the accesses of more than one byte offered to the small hierarchies
SmallWide == {<< 1, 4 >>}

\* 0x12345679 and the address 16 KiB above it, which shares its C[0] set
DefaultAddrA == 305419897

DefaultAddrB == DefaultAddrA + 16384

WriteValues == {1234}

\* the sized accesses offered to a hierarchy: << address, step >>
Accesses(h) ==
    IF h.n > 0 /\ CacheAt(h, 0).policy.block_size = 64
    THEN ({DefaultAddrA} \X {1, 2, 4}) \cup {<< DefaultAddrB, 1 >>}
    ELSE IF h.use_victim_cache
    THEN VictimAddrs \X {1}
    ELSE IF h.kind = "inclusive"
    THEN ((SmallAddrs \ {2}) \X {1}) \cup SmallWide
    ELSE SmallAddrs \X {1}

AccessBound(h) ==
    IF h.n > 0 /\ CacheAt(h, 0).policy.block_size = 64
    THEN MaxDefaultAccesses ELSE MaxAccesses

RECURSIVE AllocateAll(_, _)
AllocateAll(mmu, addrs) ==
    IF addrs = {} THEN mmu
    ELSE LET a == CHOOSE x \in addrs : TRUE
         IN  AllocateAll(allocate_page(mmu, a).mmu, addrs \ {a})

Prepared(h) ==
    [h EXCEPT !.mmu = AllocateAll(@, {a[1] : a \in Accesses(h)})]

IdleMachines ==
    program = Idle /\ pipe = Idle /\ single = Idle

IdlePredictor ==
    predictor = Idle /\ observed = Idle

IdleUnits ==
    memory = Idle /\ call = Idle

InitInclusive ==
    /\ hier \in {Prepared(h) : h \in InclusiveHierarchies}
    /\ trace = << >>
    /\ IdleMachines /\ IdlePredictor /\ IdleUnits

InitExclusive ==
    /\ hier \in {Prepared(h) : h \in ExclusiveHierarchies}
    /\ trace = << >>
    /\ IdleMachines /\ IdlePredictor /\ IdleUnits

InitDefault ==
    /\ hier \in {Prepared(h) : h \in DefaultHierarchies}
    /\ trace = << >>
    /\ IdleMachines /\ IdlePredictor /\ IdleUnits

\* an access and what it reported, with the hit/miss counters of the levels
\* and of the victim cache after it; val is the value read, and for a write
\* the value passed in
Entry(op, address, step, r) ==
    [op |-> op, address |-> address, step |-> step, stall |-> r.stall,
     worst |-> r.worst, val |-> r.val, err |-> r.err,
     history |-> [k \in 1..r.h.n |-> r.h.caches[k].history],
     victim |-> r.h.victim_cache.history]

\* cache.get(address, step, &mut Some(0), &mut Some(0))
Read(address, step) ==
    /\ hier.panic = ""
    /\ Len(trace) < AccessBound(hier)
    /\ LET returned(r) ==
               /\ hier' = r.h
               /\ trace' = Append(trace, Entry("get", address, step, r))
       IN  returned(Hier_get(hier, address, step, Some(0), Some(0)))
    /\ UNCHANGED << machineVars, predictorVars, unitVars >>

\* cache.set(address, step, value, &mut Some(0), &mut Some(0))
Write(address, step, value) ==
    /\ hier.panic = ""
    /\ Len(trace) < AccessBound(hier)
    /\ LET returned(r) ==
               /\ hier' = r.h
               /\ trace' = Append(trace, [Entry("set", address, step, r)
                                           EXCEPT !.val = value])
       IN  returned(Hier_set(hier, address, step, value, Some(0), Some(0)))
    /\ UNCHANGED << machineVars, predictorVars, unitVars >>

DoRead == \E a \in Accesses(hier) : Read(a[1], a[2])

DoWrite == \E a \in Accesses(hier) : \E v \in WriteValues : Write(a[1], a[2], v)

NextCache == DoRead \/ DoWrite

SpecInclusive == InitInclusive /\ [][NextCache]_vars

SpecExclusive == InitExclusive /\ [][NextCache]_vars

SpecDefaultCache == InitDefault /\ [][NextCache]_vars

\* C2: after any sequence of accesses through an InclusiveCache the
\* inclusion audit passes (from level 0 without a victim cache, from level 1
\* with one)
InclusionAuditPasses ==
    (hier.kind = "inclusive" /\ hier.panic = "") => verify_inclusiveness(hier)

\* C3: after any sequence of accesses through an ExclusiveCache the
\* exclusion audit passes: no line valid in C[k] is found in a deeper level
ExclusionAuditPasses ==
    (hier.kind = "exclusive" /\ hier.panic = "") => verify_exclusiveness(hier)

HoldsLine(c) == \E i \in DOMAIN c.blocks : c.blocks[i].valid

ExclusiveSpread ==
    /\ hier.kind = "exclusive" /\ hier.panic = "" /\ Len(trace) >= 3
    /\ HoldsLine(CacheAt(hier, 0)) /\ HoldsLine(CacheAt(hier, 1))
    /\ trace[Len(trace)].op = "set"

(***************************************************************************)
(* Programs run by both drivers, as run_wrapper::run sets them up: a CPU,  *)
(* the default inclusive hierarchy, the stack and the loaded image.  A     *)
(* program is its entry, its one segment, the registers its caller preset, *)
(* and whether set_stack was called.                                       *)
(***************************************************************************)
MaxCycles == 64

TextBase == 16 * PAGE_SIZE

Elf(name, words, memory_size, regs, stack) ==
    [name |-> name, entry |-> TextBase,
     segment |-> [virtual_address |-> TextBase, words |-> words,
                  memory_size |-> memory_size],
     regs |-> regs, stack |-> stack, stdin |-> << >>,
     overflow_checks |-> TRUE]

\* ADDI x1,x0,5; ADDI x2,x0,7; ADD x3,x1,x2; ECALL
SumWords == << 5243027, 7340307, 2130355, 115 >>

\* LW x1,0(x2); ADD x3,x1,x4; ECALL; three NOPs; the word 77 at offset 24
LoadWords == << 73859, 4227507, 115, NOP, NOP, NOP, 77 >>

\* ADDI x5,x0,77; SW x5,-4(x2); LW x1,-4(x2); ADD x3,x1,x5; ADDI x17,x0,3;
\* ECALL
StoreWords == << 80741011, -28234205, -4120445, 5276083, 3147923, 115 >>

\* ADDI x1,x0,1; loop: ADDI x5,x5,1; SLTI x7,x5,10; BEQ x7,x1,loop; ECALL
LoopWords == << 1048723, 1213075, 10658707, -32273181, 115 >>

\* JAL x0,+8; ECALL; ADDI x3,x0,9; ECALL
SkipWords == << 8388719, 115, 9437587, 115 >>

\* JAL x0,+8; ADDI x3,x0,1; ADDI x4,x0,2; ECALL
JumpWords == << 8388719, 1048979, 2097683, 115 >>

\* JAL x1,+12; ADDI x3,x0,1; ECALL; ADDI x4,x0,2; JALR x0,0(x1)
CallWords == << 12583151, 1048979, 115, 2097683, 32871 >>

\* ADDI x17,x0,1; ADDI x10,x0,65; ECALL; ADDI x17,x0,3; ECALL
PrintWords == << 1050771, 68158739, 115, 3147923, 115 >>

\* ADDI x2,x0,7; four NOPs; ECALL: sp leaves the stack well before the exit
SinkWords == << 7340307, NOP, NOP, NOP, NOP, 115 >>

\* LUI x5,1; ADDI x6,x5,1; AUIPC x7,0; ADDI x8,x7,0; ECALL: each result is
\* used by the instruction that follows
UpperWords == << 4791, 1213203, 919, 230419, 115 >>

\* ADDI x5,x0,72; ADDI x10,x2,-4; SW x5,-4(x2); ECALL (a7 = 0: print the
\* string at a0); ADDI x17,x0,3; ECALL: the string is stored just before it
\* is printed
SayWords == << 75498131, -4127469, -28234205, 115, 3147923, 115 >>

\* a program followed by the two words the pipeline fetches past its ECALL
Padded(words) == words \o << NOP, NOP >>

Exit == 17 :> 3

Programs ==
    { Elf("sum", Padded(SumWords), 24, Exit, FALSE),
      Elf("sum_alone", SumWords, 16, Exit, FALSE),
      Elf("sum_stack", Padded(SumWords), 24, Exit, TRUE),
      Elf("load", LoadWords, 28, Exit @@ (2 :> TextBase + 24) @@ (4 :> 5),
          FALSE),
      Elf("store", Padded(StoreWords), 32, EmptyMap, TRUE),
      Elf("loop", Padded(LoopWords), 28, Exit, TRUE),
      Elf("skip", Padded(SkipWords), 24, Exit, TRUE),
      Elf("jump", Padded(JumpWords), 24, Exit, TRUE),
      Elf("call", Padded(CallWords), 28, Exit, TRUE),
      Elf("print", Padded(PrintWords), 28, EmptyMap, TRUE),
      Elf("sink", Padded(SinkWords), 32, Exit, TRUE),
      Elf("upper", Padded(UpperWords), 28, Exit, TRUE),
      Elf("say", Padded(SayWords), 32, EmptyMap, TRUE) }

Heuristics == {"BufferedPrediction", "AlwaysNotTaken"}

\* run_wrapper::run up to the call of the driver
Loaded(elf, heuristic) ==
    LET cpu0 == CPUState_make([heuristic |-> heuristic])
        gpr(cpu) == [i \in 0..31 |-> IF i \in DOMAIN elf.regs THEN elf.regs[i]
                                      ELSE cpu.gpr[i]]
        loaded(ld) ==
            [cpu |-> [ld[1] EXCEPT !.gpr = gpr(ld[1])],
             mem |-> [InclusiveCache_default EXCEPT !.mmu = ld[2]],
             out |-> << >>, stdin |-> elf.stdin, err |-> "", val |-> 0,
             overflow_checks |-> elf.overflow_checks,
             status |-> "running", ret |-> None,
             executed |-> << >>, loaded |-> << >>]
        stacked(st) == loaded(load_elf(st[1], st[2], elf))
    IN  stacked(IF elf.stack
                THEN set_stack(cpu0, MMU_make, STACK_BASE, STACK_SIZE)
                ELSE << cpu0, MMU_make >>)

\* the locals of pipelined::run before its loop
PipelinedMachine(x) ==
    x @@ [current_state |-> PipelineState_default,
          next_state |-> PipelineState_default,
          branch_predictor |-> BranchPredictor_new(x.cpu.policy.heuristic),
          predicted_branch_taken |-> FALSE,
          resolved |-> << >>]

InitMachine ==
    /\ program \in {[elf |-> e, heuristic |-> h] :
                       e \in Programs, h \in Heuristics}
    /\ pipe = PipelinedMachine(Loaded(program.elf, program.heuristic))
    /\ single = Loaded(program.elf, program.heuristic)
    /\ hier = Idle /\ trace = Idle /\ IdlePredictor /\ IdleUnits

PipelinedCycle ==
    /\ pipe.status = "running"
    /\ pipe.cpu.history.cycle_count < MaxCycles
    /\ pipe' = settle(pipelined_run(pipe))
    /\ UNCHANGED << program, single, cacheVars, predictorVars, unitVars >>

SingleCycle ==
    /\ single.status = "running"
    /\ single.cpu.history.cycle_count < MaxCycles
    /\ single' = settle(single_cycle_run(single))
    /\ UNCHANGED << program, pipe, cacheVars, predictorVars, unitVars >>

NextMachine == PipelinedCycle \/ SingleCycle

SpecMachine == InitMachine /\ [][NextMachine]_vars

(***************************************************************************)
(* A branch predictor driven by calls of predict and update.  observed is  *)
(* the last call: its arguments, what predict returned, the predictor      *)
(* before the call and the number of calls made so far.                    *)
(***************************************************************************)
MaxCalls == 4

\* 0xFFFFFFFC, 0x1000 and 0x1004 share their entries with other pcs of the set
PredictorPcs == {0, 4, 8, 4096, 4100, -4}

Call(op, pc, branch, ret, before, calls) ==
    [op |-> op, pc |-> pc, branch |-> branch, ret |-> ret, before |-> before,
     calls |-> calls]

InitPredictor ==
    /\ predictor \in {BranchPredictor_new(h) : h \in Heuristics}
    /\ observed = Call("new", 0, FALSE, FALSE, predictor, 0)
    /\ hier = Idle /\ trace = Idle /\ IdleMachines /\ IdleUnits

Predict ==
    /\ observed.calls < MaxCalls
    /\ \E pc \in PredictorPcs :
          observed' = Call("predict", pc, FALSE, predict(predictor, pc),
                           predictor, observed.calls + 1)
    /\ UNCHANGED << predictor, cacheVars, machineVars, unitVars >>

Update ==
    /\ observed.calls < MaxCalls
    /\ \E pc \in PredictorPcs, branch \in BOOLEAN :
          /\ predictor' = update(predictor, pc, branch)
          /\ observed' = Call("update", pc, branch, FALSE, predictor,
                              observed.calls + 1)
    /\ UNCHANGED << cacheVars, machineVars, unitVars >>

NextPredictor == Predict \/ Update

SpecPredictor == InitPredictor /\ [][NextPredictor]_vars

(***************************************************************************)
(* The properties checked                                                  *)
(***************************************************************************)
Returned(x) == x.status = "returned"

BothReturned == Returned(pipe) /\ Returned(single)

Runs(name) == program.elf.name = name

\* C1: when the pipelined driver returns, inst_count is the number of
\* instructions committed, the program's instructions in execution order up
\* to and including the exit ECALL, which is what the single-cycle driver
\* counts for the same program
InstCountIsCommitted ==
    BothReturned =>
        pipe.cpu.history.inst_count = single.cpu.history.inst_count

\* C4: the program ADDI x1,x0,5; ADDI x2,x0,7; ADD x3,x1,x2; ECALL with
\* a7 = 3 ends under both drivers by returning, never by failing, with
\* x3 = 12 and inst_count = 4
SumProgramResult ==
    Runs("sum") =>
        /\ pipe.status # "failed" /\ single.status # "failed"
        /\ Returned(pipe) =>
              pipe.cpu.gpr[3] = 12 /\ pipe.cpu.history.inst_count = 4
        /\ Returned(single) =>
              single.cpu.gpr[3] = 12 /\ single.cpu.history.inst_count = 4

\* C5 as stated: for LW x1,0(x2); ADD x3,x1,x4; ECALL the pipelined run takes
\* exactly one cycle more than the single-cycle run
LoadUseOneCycleMore ==
    (Runs("load") /\ BothReturned) =>
        pipe.cpu.history.cycle_count = single.cpu.history.cycle_count + 1

\* C5: for LW x1,0(x2); ADD x3,x1,x4; ECALL the pipelined run takes exactly
\* three cycles more than the single-cycle run: the two cycles that bring the
\* first instruction to EX and the one load-use bubble
LoadUseThreeCyclesMore ==
    (Runs("load") /\ BothReturned) =>
        /\ single.cpu.history.cycle_count = 3
        /\ pipe.cpu.history.cycle_count = single.cpu.history.cycle_count + 3

LoadUseRan == Runs("load") /\ BothReturned /\ pipe.cpu.gpr[1] = 77

FreshDefault ==
    /\ hier.n = 3 /\ CacheAt(hier, 0).policy.block_size = 64
    /\ ~hier.use_victim_cache

\* C6: on a fresh default inclusive or exclusive hierarchy the first sized
\* access reports a stall of miss_penalty (100) and an access of the same
\* address that follows it at once reports C[0].hit_latency (1)
ColdMissThenHit ==
    FreshDefault =>
        /\ hier.panic = ""
        /\ Len(trace) >= 1 =>
              /\ trace[1].err = ""
              /\ trace[1].stall = Some(hier.miss_penalty)
              /\ hier.miss_penalty = 100
        /\ (Len(trace) >= 2 /\ trace[2].address = trace[1].address) =>
              /\ trace[2].err = ""
              /\ trace[2].stall = Some(CacheAt(hier, 0).policy.hit_latency)
              /\ CacheAt(hier, 0).policy.hit_latency = 1
              /\ trace[2].history[1].num_hit = trace[1].history[1].num_hit + 1

ColdMissThenHitSeen ==
    /\ FreshDefault /\ hier.kind = "exclusive" /\ Len(trace) = 2
    /\ trace[1].op = "set" /\ trace[1].step = 4
    /\ trace[2].op = "set" /\ trace[2].step = 4
    /\ trace[2].address = trace[1].address
    /\ trace[2].stall = Some(1)

ConflictPattern ==
    /\ hier.kind = "inclusive" /\ hier.use_victim_cache
    /\ Len(trace) = 3
    /\ trace[1].address = DefaultAddrA
    /\ trace[2].address = DefaultAddrB
    /\ trace[3].address = DefaultAddrA

\* C7: with the victim cache on the default inclusive hierarchy, for lines A
\* and B of one L1 set the third access of A, B, A misses L1, hits the victim
\* cache, reports the victim cache's hit_latency and leaves C[1] untouched;
\* afterwards A is valid in C[0] and B in the victim cache
VictimServesConflict ==
    ConflictPattern =>
        /\ hier.panic = "" /\ trace[3].err = ""
        /\ get_index(CacheAt(hier, 0), DefaultAddrA)
               = get_index(CacheAt(hier, 0), DefaultAddrB)
        /\ get_tag(CacheAt(hier, 0), DefaultAddrA)
               # get_tag(CacheAt(hier, 0), DefaultAddrB)
        /\ trace[3].history[1].num_miss = trace[2].history[1].num_miss + 1
        /\ trace[3].victim.num_hit = trace[2].victim.num_hit + 1
        /\ trace[3].stall = Some(hier.victim_cache.policy.hit_latency)
        /\ trace[3].history[2] = trace[2].history[2]
        /\ is_in_cache(CacheAt(hier, 0), DefaultAddrA)
        /\ is_in_cache(hier.victim_cache, DefaultAddrB)

ConflictPatternSeen ==
    ConflictPattern /\ trace[1].op = "get" /\ trace[3].op = "set"

Agreeing(resolved) == {i \in DOMAIN resolved : ~resolved[i].do_jump}

LoopFinished ==
    Runs("loop") /\ program.heuristic = "BufferedPrediction" /\ Returned(pipe)

\* C8: under BufferedPrediction the ten-iteration backward BEQ loop resolves
\* its branch taken nine times and then not taken, at least 8 of the ten
\* resolutions agree with the prediction and at most 2 redirect and flush
LoopPredictedWell ==
    LoopFinished =>
        /\ Len(pipe.resolved) = 10
        /\ \A i \in 1..10 : pipe.resolved[i].branch_taken = (i < 10)
        /\ \A i \in 1..10 :
              pipe.resolved[i].do_jump =
                  (pipe.resolved[i].branch_taken
                      # pipe.resolved[i].predicted_branch_taken)
        /\ Cardinality(Agreeing(pipe.resolved)) >= 8
        /\ Cardinality(DOMAIN pipe.resolved \ Agreeing(pipe.resolved)) <= 2

LoopFinishedOneFlush ==
    LoopFinished /\ Cardinality(Agreeing(pipe.resolved)) = 9

Entries == 0..(PREDICTOR_BUFFER_SIZE - 1)

\* one step of a two-bit counter: toward Strong-Taken (0) when taken, toward
\* Strong-NotTaken (3) otherwise
Stepped(state, taken) ==
    IF taken THEN (IF state = 0 THEN 0 ELSE state - 1)
    ELSE (IF state = 3 THEN 3 ELSE state + 1)

\* C9: the predictor is 4096 two-bit counters indexed by pc mod 4096 that
\* start Weak-Taken; predict is taken iff the entry is Strong-Taken or
\* Weak-Taken; update steps that entry once, saturating, and no other;
\* under AlwaysNotTaken predict is false and update changes nothing
PredictorTable ==
    LET index == observed.pc % PREDICTOR_BUFFER_SIZE
        buffered == predictor.heuristic = "BufferedPrediction"
    IN  /\ PREDICTOR_BUFFER_SIZE = 4096
        /\ DOMAIN predictor.buffer \subseteq Entries
        /\ \A i \in Entries : BufferAt(predictor, i) \in 0..3
        /\ observed.op = "new" =>
              \A i \in Entries : BufferAt(predictor, i) = WeaklyTaken
        /\ observed.op = "predict" =>
              /\ predictor = observed.before
              /\ observed.ret = (buffered /\ BufferAt(predictor, index)
                                     \in {StronglyTaken, WeaklyTaken})
        /\ (observed.op = "update" /\ buffered) =>
              /\ BufferAt(predictor, index)
                     = Stepped(BufferAt(observed.before, index),
                               observed.branch)
              /\ \A i \in Entries \ {index} :
                     BufferAt(predictor, i) = BufferAt(observed.before, i)
        /\ (observed.op = "update" /\ ~buffered) =>
              predictor = observed.before

SaturatedUpdateSeen ==
    /\ observed.op = "update" /\ observed.branch /\ observed.pc = -4
    /\ predictor.heuristic = "BufferedPrediction"
    /\ BufferAt(observed.before, 4092) = StronglyTaken
    /\ BufferAt(predictor, 4092) = StronglyTaken
    /\ BufferAt(predictor, 0) = WeaklyNotTaken

ExitLatched(m) ==
    /\ m.next_state.ex_mem.inst.opcode = "System"
    /\ m.next_state.ex_mem.op2 = 3

\* the word of the program at an address of its segment
WordAt(address) ==
    program.elf.segment.words[((address - TextBase) \div 4) + 1]

\* C10: the pipelined driver returns in the first cycle whose EX latches a
\* SYSTEM instruction with op2 = 3 and returns that instruction's pc; the
\* single-cycle driver returns the pc of the same instruction, its
\* pre-increment pc; a SYSTEM instruction with a7 # 3 or one flushed before
\* EX does not end the run
ExitRule ==
    /\ pipe.status = "running" => ~ExitLatched(pipe)
    /\ Returned(pipe) =>
          /\ ExitLatched(pipe)
          /\ pipe.ret = Some(pipe.next_state.ex_mem.pc)
          /\ raw_to_opcode(WordAt(Unwrap(pipe.ret))) = "System"
    /\ Returned(single) =>
          /\ single.ret = Some(wrapping_sub(single.cpu.pc, 4))
          /\ raw_to_opcode(WordAt(Unwrap(single.ret))) = "System"
          /\ single.cpu.gpr[17] = 3
    /\ BothReturned => pipe.ret = single.ret

FlushedExitPassed ==
    /\ Runs("skip") /\ BothReturned
    /\ pipe.ret = Some(TextBase + 12)

(***************************************************************************)
(* Stall accounting of the sized accesses                                  *)
(***************************************************************************)
InitHierarchies ==
    /\ hier \in {Prepared(h) : h \in InclusiveHierarchies
                                     \cup ExclusiveHierarchies
                                     \cup DefaultHierarchies}
    /\ trace = << >>
    /\ IdleMachines /\ IdlePredictor /\ IdleUnits

SpecHierarchies == InitHierarchies /\ [][NextCache]_vars

\* the latency of the first level, from level k on, that holds the address:
\* C[k], the victim cache after C[0], a deeper level, or main memory
RECURSIVE ServingLatency(_, _, _)
ServingLatency(h, k, address) ==
    IF k = h.n THEN h.miss_penalty
    ELSE IF Hier_lookup(h, k, address) # None
    THEN CacheAt(h, k).policy.hit_latency
    ELSE IF /\ k = 0 /\ h.kind = "inclusive" /\ h.use_victim_cache
            /\ lookup(h.victim_cache, address) # None
    THEN h.victim_cache.policy.hit_latency
    ELSE ServingLatency(h, k + 1, address)

LastEntry == trace'[Len(trace')]

ZeroRegisterReadsZero ==
    pipe.cpu.gpr[0] = 0 /\ single.cpu.gpr[0] = 0

\* both drivers have finished the program whose first instruction, JAL x0,
\* brought the link address pc + 4 to write-back with rd = 0
LinkToZeroRegisterDone ==
    /\ Runs("jump") /\ BothReturned
    /\ Instruction_new(JumpWords[1]).controls.reg_write
    /\ Instruction_new(JumpWords[1]).attributes.rd = Some(0)

(***************************************************************************)
(* The decoder driven by words.  The words are assembled field by field    *)
(* as the RV32I base instruction formats lay them out (the encoders below  *)
(* are the manual's, not the simulator's), so every word comes with the    *)
(* immediate it encodes and with whether RV32I defines it.                 *)
(***************************************************************************)
\* the w-bit field v as a two's complement number
Signed(v, w) == IF v >= Pow2(w - 1) THEN v - Pow2(w) ELSE v

EncodeR(funct7, rs2, rs1, funct3, rd, opcode) ==
    ((((Signed(funct7, 7) * 32 + rs2) * 32 + rs1) * 8 + funct3) * 32 + rd)
        * 128 + opcode

EncodeI(imm, rs1, funct3, rd, opcode) ==
    (((imm * 32 + rs1) * 8 + funct3) * 32 + rd) * 128 + opcode

EncodeS(imm, rs2, rs1, funct3, opcode) ==
    (((((imm \div 32) * 32 + rs2) * 32 + rs1) * 8 + funct3) * 32 + (imm % 32))
        * 128 + opcode

EncodeB(imm, rs2, rs1, funct3, opcode) ==
    LET u == imm % 8192
        top == (u \div 4096) * 64 + ((u \div 32) % 64)
        low == ((u \div 2) % 16) * 2 + ((u \div 2048) % 2)
    IN  ((((Signed(top, 7) * 32 + rs2) * 32 + rs1) * 8 + funct3) * 32 + low)
            * 128 + opcode

EncodeU(imm, rd, opcode) == imm + rd * 128 + opcode

EncodeJ(imm, rd, opcode) ==
    LET u == imm % 2097152
        top == (((u \div 1048576) * 1024 + ((u \div 2) % 1024)) * 2
                   + ((u \div 2048) % 2)) * 256 + ((u \div 4096) % 256)
    IN  (Signed(top, 20) * 32 + rd) * 128 + opcode

\* the << funct3, funct7 >> that RV32I defines for OP and for the shifts of
\* OP-IMM, and the funct3 it defines for BRANCH, LOAD and STORE
OpTable ==
    { << 0, 0 >>, << 0, 32 >>, << 1, 0 >>, << 2, 0 >>, << 3, 0 >>, << 4, 0 >>,
      << 5, 0 >>, << 5, 32 >>, << 6, 0 >>, << 7, 0 >> }

ShiftTable == { << 1, 0 >>, << 5, 0 >>, << 5, 32 >> }

BranchTable == {0, 1, 4, 5, 6, 7}

LoadTable == {0, 1, 2, 4, 5}

StoreTable == {0, 1, 2}

OpcodeTable == {55, 23, 111, 103, 99, 3, 35, 51, 19, 115}

Case(raw_inst, format, imm, valid) ==
    [raw_inst |-> raw_inst, format |-> format, imm |-> imm, valid |-> valid]

ImmI == {-2048, -1, 0, 20, 2047}

ImmB == {-4096, -2, 0, 100, 2048, 4094}

ImmU == {-2147479552 - 4096, -4096, 0, 4096, 2147479552}

ImmJ == {-1048576, -524290, -136, 0, 2, 2048, 524286, 524288, 1048574}

Funct7s == {0, 1, 32, 33, 127}

\* the words offered to the decoder
Cases ==
    {Case(EncodeI(i, 6, 0, 5, o), "I", Some(i), TRUE) :
        i \in ImmI, o \in {103, 19}}
    \cup {Case(EncodeI(i, 6, f, 5, 3), "I", Some(i), f \in LoadTable) :
        i \in ImmI, f \in 0..7}
    \cup {Case(EncodeS(i, 7, 6, f, 35), "S", Some(i), f \in StoreTable) :
        i \in ImmI \cup {31, 32}, f \in 0..7}
    \cup {Case(EncodeB(i, 7, 6, f, 99), "B", Some(i), f \in BranchTable) :
        i \in ImmB, f \in 0..7}
    \cup {Case(EncodeU(i, 5, o), "U", Some(i), TRUE) :
        i \in ImmU, o \in {55, 23}}
    \cup {Case(EncodeJ(i, 1, 111), "J", Some(i), TRUE) : i \in ImmJ}
    \cup {Case(EncodeR(g, a, 6, f, 5, 19), "I", Some(a),
               << f, g >> \in ShiftTable) :
        g \in Funct7s, a \in {0, 1, 31}, f \in {1, 5}}
    \cup {Case(EncodeR(g, 7, 6, f, 5, 51), "R", None, << f, g >> \in OpTable) :
        g \in Funct7s, f \in 0..7}
    \cup {Case(o, "", None, o \in OpcodeTable) : o \in 0..127}

InitDecoder ==
    /\ call = [op |-> "none"]
    /\ memory = Idle
    /\ hier = Idle /\ trace = Idle /\ IdleMachines /\ IdlePredictor

\* Instruction::new(raw_inst): err is the reason of the failure, or ""
Decode(c) ==
    /\ call' = [op |-> "Instruction::new", case |-> c,
                err |-> DecodeError(c.raw_inst),
                inst |-> IF DecodeError(c.raw_inst) = ""
                         THEN Some(Instruction_new(c.raw_inst)) ELSE None]
    /\ UNCHANGED << memory, cacheVars, machineVars, predictorVars >>

NextDecoder == \E c \in Cases : Decode(c)

SpecDecoder == InitDecoder /\ [][NextDecoder]_vars

Decoded == call.op = "Instruction::new"

\* C13: the decoded imm of every word RV32I defines is the immediate the
\* word encodes in its format (I, S, B, U, J), sign-extended to 32 bits,
\* over the whole range of the format; for SLLI, SRLI and SRAI it is the
\* 5-bit shamt.
ImmediateIsStandard ==
    (Decoded /\ call.case.valid /\ call.case.imm # None) =>
        /\ call.err = ""
        /\ Unwrap(call.inst).attributes.imm = call.case.imm

\* C14: Instruction::new fails for every word that RV32I does not define
\* (an opcode outside the table, an undefined funct3 for BRANCH, LOAD or
\* STORE, an undefined funct7 for OP or a shift of OP-IMM) and succeeds
\* for every word that it defines.
DecodeFailsIffUndefined ==
    Decoded => (call.err # "" <=> ~call.case.valid)

\* ---------------------------------------------------------------------------
\* The ALU called on its own: alu(inst, op1, op2) for every operation and for
\* operands at the edges of i32.  The build either checks arithmetic overflow
\* (a debug build) or not (a release build); call.panic tells that the call
\* ended in a panic instead of returning.
\* ---------------------------------------------------------------------------
ALUOps ==
    {"ADD", "SUB", "AND", "OR", "XOR", "SLT", "SLTU", "SLL", "SRL", "SRA",
     "BEQ", "BNE", "BLT", "BGE", "BLTU", "BGEU"}

Operands ==
    {-2147483647 - 1, -2147483647, -33, -1, 0, 1, 5, 31, 32, 33, 65536,
     2147483647}

InitAlu ==
    /\ call = [op |-> "none"]
    /\ memory = Idle
    /\ hier = Idle /\ trace = Idle /\ IdleMachines /\ IdlePredictor

Compute(alu_op, op1, op2, overflow_checks) ==
    LET inst == [controls |-> [alu_op |-> alu_op]]
        panic == overflow_checks /\ alu_overflow(inst, op1, op2)
    IN  /\ call.op = "none"
        /\ call' = [op |-> "alu", alu_op |-> alu_op, op1 |-> op1, op2 |-> op2,
                    overflow_checks |-> overflow_checks, panic |-> panic,
                    result |-> IF panic THEN None
                               ELSE Some(alu(inst, op1, op2))]
        /\ UNCHANGED << memory, cacheVars, machineVars, predictorVars >>

\* the caller takes the result (or the panic) and is ready for the next call
Taken ==
    /\ call.op = "alu"
    /\ call' = [op |-> "none"]
    /\ UNCHANGED << memory, cacheVars, machineVars, predictorVars >>

NextAlu ==
    \/ \E alu_op \in ALUOps, op1 \in Operands, op2 \in Operands,
          overflow_checks \in BOOLEAN :
           Compute(alu_op, op1, op2, overflow_checks)
    \/ Taken

SpecAlu == InitAlu /\ [][NextAlu]_vars

Computed == call.op = "alu"

\* a < b for the unsigned values of the 32-bit patterns a and b
UnsignedLess(a, b) ==
    \/ a >= 0 /\ b < 0
    \/ a >= 0 /\ b >= 0 /\ a < b
    \/ a < 0 /\ b < 0 /\ a < b

\* the condition of the branch instruction the comparator belongs to
BranchCondition(alu_op, op1, op2) ==
    CASE alu_op = "BEQ" -> op1 = op2
      [] alu_op = "BNE" -> op1 # op2
      [] alu_op = "BLT" -> op1 < op2
      [] alu_op = "BGE" -> op1 >= op2
      [] alu_op = "BLTU" -> UnsignedLess(op1, op2)
      [] alu_op = "BGEU" -> ~UnsignedLess(op1, op2)

BranchOps == {"BEQ", "BNE", "BLT", "BGE", "BLTU", "BGEU"}

\* C15: for a branch comparator the ALU returns the complement of the branch
\* condition, signed for BLT and BGE and unsigned for BLTU and BGEU: 0 when the
\* branch is taken and 1 when it is not.
BranchComparatorsNegated ==
    (Computed /\ call.alu_op \in BranchOps) =>
        /\ ~call.panic
        /\ call.result =
             Some(IF BranchCondition(call.alu_op, call.op1, call.op2)
                  THEN 0 ELSE 1)

\* an unsigned comparison that differs from the signed one has been computed
UnsignedBranchAcrossSign ==
    /\ Computed /\ call.alu_op = "BLTU"
    /\ call.op1 = 1 /\ call.op2 = -1
    /\ call.result = Some(0)

\* bit i of the 32-bit pattern x
Bit(x, i) == IF i = 31 THEN (IF x < 0 THEN 1 ELSE 0) ELSE (x \div Pow2(i)) % 2

\* the halves of the 32-bit pattern x
Low16(x) == x % 65536
High16(x) == (x \div 65536) % 65536

\* r is a + b modulo 2^32
IsSum(r, a, b) ==
    LET low == Low16(a) + Low16(b)
    IN  /\ Low16(r) = low % 65536
        /\ High16(r) = (High16(a) + High16(b) + low \div 65536) % 65536

\* r is x shifted by s places: left, right with zeros, right with the sign
IsShift(alu_op, r, x, s) ==
    \A i \in 0..31 :
        Bit(r, i) =
            CASE alu_op = "SLL" -> IF i >= s THEN Bit(x, i - s) ELSE 0
              [] alu_op = "SRL" -> IF i + s <= 31 THEN Bit(x, i + s) ELSE 0
              [] alu_op = "SRA" -> Bit(x, IF i + s <= 31 THEN i + s ELSE 31)

\* C16: the ALU is total and modular: ADD and SUB wrap modulo 2^32 without
\* trapping, and SLL, SRL and SRA shift by op2 modulo 32 whatever op2 is, SRL
\* filling with zeros and SRA with the sign bit; no call fails.
AluTotalAndModular ==
    Computed =>
        /\ ~call.panic
        /\ call.alu_op = "ADD" =>
             IsSum(Unwrap(call.result), call.op1, call.op2)
        /\ call.alu_op = "SUB" =>
             IsSum(call.op1, Unwrap(call.result), call.op2)
        /\ call.alu_op \in {"SLL", "SRL", "SRA"} =>
             IsShift(call.alu_op, Unwrap(call.result), call.op1,
                     call.op2 % 32)

\* ---------------------------------------------------------------------------
\* The MMU called on its own (memory/mmu.rs): memory is the MMU, call the last
\* call with its outcome.  call also keeps the history the properties are
\* stated against: the MMU before the call, the pages allocated so far and the
\* byte last written at each address by a call that returned Ok.
\* ---------------------------------------------------------------------------
\* set16 without the alignment test
MMU_set16_unaligned(mmu, address, value) ==
    The({ IF low.err # "" THEN low
          ELSE MMU_set8(low.mmu, wrapping_add(address, 1),
                        (value \div 256) % 256)
          : low \in {MMU_set8(mmu, address, value % 256)} })

\* MMU::set16: value is a u16
MMU_set16(mmu, address, value) ==
    IF address % 2 # 0 THEN [mmu |-> mmu, err |-> "Alignment"]
    ELSE The({ IF low.err # "" THEN low
               ELSE MMU_set8(low.mmu, wrapping_add(address, 1),
                             (value \div 256) % 256)
               : low \in {MMU_set8(mmu, address, value % 256)} })

\* MMU::get16
MMU_get16(mmu, address) ==
    IF address % 2 # 0 THEN [val |-> 0, err |-> "Alignment"]
    ELSE The({ IF low.err # "" THEN low
               ELSE The({ IF high.err # "" THEN high
                          ELSE [val |-> low.val + high.val * 256, err |-> ""]
                          : high \in {MMU_get8(mmu,
                                               wrapping_add(address, 1))} })
               : low \in {MMU_get8(mmu, address)} })

\* MMU::set32: value is a u32, kept as the i32 of the same bits
MMU_set32(mmu, address, value) ==
    IF address % 4 # 0 THEN [mmu |-> mmu, err |-> "Alignment"]
    ELSE The({ IF low.err # "" THEN low
               ELSE MMU_set16(low.mmu, wrapping_add(address, 2),
                              shr(value, 16) % 65536)
               : low \in {MMU_set16(mmu, address, value % 65536)} })

\* MMU::get32: low | (high << 16) as the i32 of the same bits
MMU_get32(mmu, address) ==
    IF address % 4 # 0 THEN [val |-> 0, err |-> "Alignment"]
    ELSE The({ IF low.err # "" THEN low
               ELSE The({ IF high.err # "" THEN high
                          ELSE [val |-> low.val + shl(high.val, 16),
                                err |-> ""]
                          : high \in {MMU_get16(mmu,
                                                wrapping_add(address, 2))} })
               : low \in {MMU_get16(mmu, address)} })

\* the number of MMU calls of one run
MaxMMUCalls == 3

\* addresses: the start of a page, an odd and a merely even address in it, its
\* last word, the start of the next page and the last word of the address
\* space (0xFFFFFFFC)
Addresses == {4096, 4097, 4098, 8188, 8192, -4}

Bytes == {1, 255}
Halves == {255, 48879}
Words == {305419896, -2130771714}

\* the page an address lies in
PageOf(address) == address \div 4096

\* byte k of a value, least significant first
ByteOf(value, k) == (value \div (256 ^ k)) % 256

\* the history after n bytes of value were written at address
Wrote(written, address, value, n) ==
    [x \in DOMAIN written \cup {address + k : k \in 0..(n - 1)} |->
        IF x - address \in 0..(n - 1) THEN ByteOf(value, x - address)
        ELSE written[x]]

InitMMU ==
    /\ memory = MMU_make
    /\ call = [op |-> "none", address |-> 0, value |-> 0, err |-> "",
               val |-> 0, ret |-> FALSE, fresh |-> FALSE, n |-> 0,
               before |-> MMU_make, pages |-> {}, written |-> EmptyMap]
    /\ hier = Idle /\ trace = Idle /\ IdleMachines /\ IdlePredictor

Allocate(address) ==
    /\ call.n < MaxMMUCalls
    /\ \E r \in {allocate_page(memory, address)} :
        /\ memory' = r.mmu
        /\ call' = [call EXCEPT !.op = "allocate_page", !.address = address,
                                !.value = 0, !.err = "", !.val = 0,
                                !.ret = r.ret,
                                !.fresh = PageOf(address) \notin call.pages,
                                !.n = @ + 1, !.before = memory,
                                !.pages = @ \cup {PageOf(address)}]
    /\ UNCHANGED << cacheVars, machineVars, predictorVars >>

\* set8, set16 or set32 of value at address
Set(width, address, value) ==
    /\ call.n < MaxMMUCalls
    /\ \E r \in {CASE width = 8 -> MMU_set8(memory, address, value)
                   [] width = 16 -> MMU_set16(memory, address, value)
                   [] width = 32 -> MMU_set32(memory, address, value)} :
        /\ memory' = r.mmu
        /\ call' = [call EXCEPT !.op = "set", !.address = address,
                                !.value = value, !.err = r.err, !.val = width,
                                !.ret = FALSE, !.fresh = FALSE,
                                !.n = @ + 1, !.before = memory,
                                !.written =
                                    IF r.err = ""
                                    THEN Wrote(@, address, value, width \div 8)
                                    ELSE @]
    /\ UNCHANGED << cacheVars, machineVars, predictorVars >>

Set8 == \E address \in Addresses, value \in Bytes : Set(8, address, value)

Set16 == \E address \in Addresses, value \in Halves : Set(16, address, value)

Set32 == \E address \in Addresses, value \in Words : Set(32, address, value)

\* get8, get16 or get32 at address; value keeps the width
Get(width, address) ==
    /\ call.n < MaxMMUCalls
    /\ \E r \in {CASE width = 8 -> MMU_get8(memory, address)
                   [] width = 16 -> MMU_get16(memory, address)
                   [] width = 32 -> MMU_get32(memory, address)} :
        /\ memory' = memory
        /\ call' = [call EXCEPT !.op = "get", !.address = address,
                                !.value = width, !.err = r.err,
                                !.val = r.val, !.ret = FALSE,
                                !.fresh = FALSE, !.n = @ + 1,
                                !.before = memory]
    /\ UNCHANGED << cacheVars, machineVars, predictorVars >>

NextMMU ==
    \/ \E address \in Addresses : Allocate(address)
    \/ Set8
    \/ Set16
    \/ Set32
    \/ \E address \in Addresses : Get(8, address)
    \/ \E address \in Addresses : Get(16, address)
    \/ \E address \in Addresses : Get(32, address)

SpecMMU == InitMMU /\ [][NextMMU]_vars

\* the byte the history gives for an address of an allocated page
ByteAt(address) ==
    IF address \in DOMAIN call.written THEN call.written[address] ELSE 0

\* the little-endian value of the n bytes at address, as an i32 when n = 4
ValueAt(address, n) ==
    IF n = 4
    THEN ByteAt(address) + ByteAt(address + 1) * 256
            + ByteAt(address + 2) * 65536
            + (IF ByteAt(address + 3) >= 128 THEN ByteAt(address + 3) - 256
               ELSE ByteAt(address + 3)) * 16777216
    ELSE IF n = 2 THEN ByteAt(address) + ByteAt(address + 1) * 256
    ELSE ByteAt(address)

\* every byte of the words at Addresses
ByteAddresses == {a + k : a \in {4096, 8188, 8192, -4}, k \in 0..3}

\* C17: the MMU is a zero-initialised byte map over the allocated pages: get8
\* gives the byte last written at the address, or 0 when none was written
\* since the page was allocated; get16 and get32 at aligned addresses give the
\* little-endian composition of those bytes; allocate_page returns true
\* exactly on the first allocation of a page, and otherwise changes nothing.
MMUIsZeroInitialisedByteMap ==
    /\ \A x \in ByteAddresses :
        PageOf(x) \in call.pages =>
            MMU_get8(memory, x) = [val |-> ByteAt(x), err |-> ""]
    /\ (call.op = "get" /\ PageOf(call.address) \in call.pages
            /\ call.address % (call.value \div 8) = 0) =>
        /\ call.err = ""
        /\ call.val = ValueAt(call.address, call.value \div 8)
    /\ call.op = "allocate_page" =>
        /\ call.ret = call.fresh
        /\ ~call.ret => memory = call.before

\* a word with the top bit set was written and read back
WordReadBack ==
    /\ call.op = "get" /\ call.value = 32 /\ call.err = ""
    /\ call.val = -2130771714

\* C18: get8 and set8 on an address of a page that is not allocated fail with
\* ReadUnallocated and WriteUnallocated; get16 and set16 at an odd address and
\* get32 and set32 at an address not divisible by 4 fail with Alignment even
\* when the page is allocated; a failed operation changes neither the contents
\* of any page nor the set of allocated pages.
MMUFailuresChangeNothing ==
    LET width == IF call.op = "get" THEN call.value ELSE call.val
    IN  /\ (call.op \in {"get", "set"} /\ width = 8
                /\ PageOf(call.address) \notin call.pages) =>
            call.err = IF call.op = "get" THEN "ReadUnallocated"
                       ELSE "WriteUnallocated"
        /\ (call.op \in {"get", "set"} /\ width \in {16, 32}
                /\ call.address % (width \div 8) # 0) =>
            call.err = "Alignment"
        /\ call.err # "" =>
            /\ memory = call.before
            /\ \A x \in ByteAddresses :
                MMU_get8(memory, x) = MMU_get8(call.before, x)
        /\ \A x \in ByteAddresses :
            (MMU_get8(memory, x).err = "") = (PageOf(x) \in call.pages)

\* a misaligned halfword store into an allocated page was refused
MisalignedStoreRefused ==
    /\ call.op = "set" /\ call.val = 16 /\ call.address % 2 = 1
    /\ PageOf(call.address) \in call.pages
    /\ call.err = "Alignment"

\* ---------------------------------------------------------------------------
\* The stack check of the two drivers
\* ---------------------------------------------------------------------------
\* sp (x2) is below stack_base - stack_size, as unsigned values
BelowStack(cpu) ==
    UnsignedLess(cpu.gpr[2], wrapping_sub(cpu.stack_base, cpu.stack_size))

\* one iteration of a driver's loop from x to y: with sp below the stack the
\* run fails and nothing else changes; otherwise the cycle is counted and
\* carried out, whatever it does to sp
CheckedAtTop(x, y) ==
    IF BelowStack(x.cpu)
    THEN y = [x EXCEPT !.err = "Stack overflow", !.status = "failed"]
    ELSE /\ y.err # "Stack overflow"
         /\ y.cpu.history.cycle_count = x.cpu.history.cycle_count + 1

\* C19: in both drivers the condition sp < stack_base - stack_size is
\* evaluated once per cycle, at the top of the loop before any stage of the
\* cycle; when it holds the run ends with a fatal error and the cycle is not
\* executed: no register, PC, memory or counter changes.
StackCheckedAtTop ==
    [][/\ pipe' # pipe => CheckedAtTop(pipe, pipe')
       /\ single' # single => CheckedAtTop(single, single')]_vars

\* both drivers stopped on the stack check: the single-cycle one at the top of
\* its second cycle, the pipelined one when the write of sp had left WB
BothStoppedOnStack ==
    /\ Runs("sink")
    /\ single.err = "Stack overflow" /\ single.cpu.history.cycle_count = 1
    /\ pipe.err = "Stack overflow" /\ pipe.cpu.history.cycle_count = 5
    /\ pipe.cpu.gpr[2] = 7

\* ---------------------------------------------------------------------------
\* AMAT (memory/mod.rs, memory/inclusive.rs, memory/cache.rs).  The f64 values
\* are kept as exact ratios of integers; a ratio with den = 0 is the NaN that
\* the miss rate 0.0 / 0.0 of a cache without accesses gives and that every
\* later sum and product keeps.
\* ---------------------------------------------------------------------------
Ratio(num, den) == [num |-> num, den |-> den]

\* the term with the hit rate in the place of the miss rate
amat_term_hit_rate(cache, result) ==
    LET num_access == cache.history.num_hit + cache.history.num_miss
    IN  Ratio(cache.policy.hit_latency * num_access * result.den
                + cache.history.num_hit * result.num,
              num_access * result.den)

\* cache.policy.hit_latency as f64 + cache.get_miss_rate() * result
amat_term(cache, result) ==
    LET num_access == cache.history.num_hit + cache.history.num_miss
    IN  Ratio(cache.policy.hit_latency * num_access * result.den
                + cache.history.num_miss * result.num,
              num_access * result.den)

\* the iterations k, k - 1, .., 0 of the loop of StorageInterface::get_amat
RECURSIVE amat_levels(_, _, _)
amat_levels(h, k, result) ==
    IF k < 0 THEN result
    ELSE amat_levels(h, k - 1, amat_term(CacheAt(h, k), result))

StorageInterface_get_amat(h) ==
    amat_levels(h, h.n - 1, Ratio(h.miss_penalty, 1))

\* the iterations of the loop of InclusiveCache::get_amat
RECURSIVE Inclusive_amat_levels(_, _, _)
Inclusive_amat_levels(h, k, result) ==
    IF k < 0 THEN result
    ELSE Inclusive_amat_levels(h, k - 1,
             amat_term(CacheAt(h, k),
                       IF k = 0 /\ h.use_victim_cache
                       THEN amat_term(h.victim_cache, result)
                       ELSE result))

Inclusive_get_amat(h) ==
    Inclusive_amat_levels(h, h.n - 1, Ratio(h.miss_penalty, 1))

get_amat(h) ==
    IF h.kind = "inclusive" THEN Inclusive_get_amat(h)
    ELSE StorageInterface_get_amat(h)

\* cache.get_amat() once the accesses are over
GetAmat ==
    /\ hier.panic = ""
    /\ call = Idle
    /\ call' = [op |-> "get_amat", amat |-> get_amat(hier)]
    /\ UNCHANGED << memory, cacheVars, machineVars, predictorVars >>

NextAmat ==
    \/ call = Idle /\ DoRead
    \/ call = Idle /\ DoWrite
    \/ GetAmat

SpecAmat == InitHierarchies /\ [][NextAmat]_vars

\* the caches in the order of the formula: C[0], the victim cache when it is
\* enabled, C[1], .., C[n-1]
AmatOrder(h) ==
    IF h.n = 0 THEN << >>
    ELSE << CacheAt(h, 0) >>
            \o (IF h.use_victim_cache THEN << h.victim_cache >> ELSE << >>)
            \o [k \in 1..(h.n - 1) |-> CacheAt(h, k)]

Accessed(cache) == cache.history.num_hit + cache.history.num_miss

\* the product of f over the caches i..j of the order
RECURSIVE Product(_, _, _, _)
Product(order, i, j, missed) ==
    IF i > j THEN 1
    ELSE (IF missed THEN order[i].history.num_miss ELSE Accessed(order[i]))
            * Product(order, i + 1, j, missed)

\* the numerator, over the product of the access counts, of
\*   sum over k of (miss_rate_1 * .. * miss_rate_(k-1)) * hit_latency_k
\* from term k on
RECURSIVE LatencySum(_, _)
LatencySum(order, k) ==
    IF k > Len(order) THEN 0
    ELSE Product(order, 1, k - 1, TRUE) * order[k].policy.hit_latency
            * Product(order, k, Len(order), FALSE)
         + LatencySum(order, k + 1)

\* AMAT_0 of the recurrence AMAT_n = miss_penalty,
\* AMAT_k = hit_latency_k + miss_rate_k * AMAT_(k+1), unfolded
UnfoldedAmat(h) ==
    LET order == AmatOrder(h)
    IN  Ratio(LatencySum(order, 1)
                + Product(order, 1, Len(order), TRUE) * h.miss_penalty,
              Product(order, 1, Len(order), FALSE))

\* C20: get_amat gives AMAT_0 of AMAT_n = miss_penalty, AMAT_k =
\* hit_latency_k + miss_rate_k * AMAT_(k+1) with miss_rate_k = num_miss_k /
\* (num_hit_k + num_miss_k); with the victim cache enabled its term
\* hit_latency_vc + miss_rate_vc * AMAT_1 stands between C[0] and C[1].
AmatIsRecurrence ==
    (call # Idle /\ \A k \in 1..Len(AmatOrder(hier)) :
                        Accessed(AmatOrder(hier)[k]) > 0) =>
        call.amat = UnfoldedAmat(hier)

\* the AMAT of a hierarchy whose victim cache has hit and missed
AmatWithVictimTerm ==
    /\ call # Idle
    /\ hier.kind = "inclusive" /\ hier.use_victim_cache
    /\ hier.victim_cache.history.num_hit > 0
    /\ hier.victim_cache.history.num_miss > 0
    /\ call.amat.den > 0
    /\ call.amat.num % call.amat.den # 0

\* ---------------------------------------------------------------------------
\* The pipelined driver against the single-cycle driver
\* ---------------------------------------------------------------------------
\* the entries of a history that are not the word NOP: the bubbles the
\* pipeline injects are NOPs, and a NOP of the program uses no operand
NonBubbles(history) == SelectSeq(history, LAMBDA e : e.raw_inst # NOP)

IsPrefix(a, b) ==
    Len(a) <= Len(b) /\ \A i \in 1..Len(a) : a[i] = b[i]

\* one history is the other so far
Agree(a, b) == IsPrefix(a, b) \/ IsPrefix(b, a)

Over(x) == x.status # "running"

\* C21: for every program the instructions that pass through EX in the
\* pipelined driver, bubbles apart, with the operands each uses, the value
\* each load returns and the exit PC are those of the single-cycle driver: at
\* any time one history is the other so far, and when both runs are over both
\* have returned, with the same histories and the same exit PC.
SameExecution ==
    /\ Agree(NonBubbles(pipe.executed), NonBubbles(single.executed))
    /\ Agree(pipe.loaded, single.loaded)
    /\ (Over(pipe) /\ Over(single)) =>
        /\ BothReturned
        /\ pipe.ret = single.ret
        /\ NonBubbles(pipe.executed) = NonBubbles(single.executed)
        /\ pipe.loaded = single.loaded

\* the instruction producer writes the register rs names, and rs is not x0
Forwards(producer, rs) ==
    /\ rs # None /\ rs # Some(0)
    /\ producer.controls.reg_write
    /\ producer.attributes.rd = rs

\* the operand EX uses for the source rs of the ID/EX instruction, latched
\* the value of ID/EX for it
ForwardedOperand(state, rs, latched) ==
    IF Forwards(state.ex_mem.inst, rs) THEN state.ex_mem.exec_result
    ELSE IF Forwards(state.mem_wb.inst, rs) THEN state.mem_wb.wb_result
    ELSE latched

\* the value ID latches for the source rs: the result in MEM/WB, which WB
\* writes in the same cycle, or the register file
LatchedOperand(m, rs) ==
    IF Forwards(m.current_state.mem_wb.inst, rs)
    THEN m.current_state.mem_wb.wb_result
    ELSE m.cpu.gpr[IF rs = None THEN 0 ELSE Unwrap(rs)]

LastOf(history) == history[Len(history)]

\* a cycle of the pipelined driver in which EX ran
ExRan == pipe' # pipe /\ Len(pipe'.executed) = Len(pipe.executed) + 1

\* a cycle of the pipelined driver in which ID ran and that went on to its end
IdRan ==
    /\ pipe' # pipe /\ pipe'.status = "running"
    /\ ~load_hazard(pipe.current_state)

\* C22: each source operand of the instruction in EX is ex_mem.exec_result
\* if the EX/MEM instruction writes that register, else mem_wb.wb_result if
\* the MEM/WB instruction writes it, else the value latched in ID/EX, which
\* ID took from mem_wb.wb_result if the MEM/WB instruction of the decode
\* cycle wrote the register and from the register file otherwise; x0 is
\* never forwarded, and EX/MEM.op2 keeps the forwarded rs2 value.
OperandsForwarded ==
    [][LET state == pipe.current_state
           rs1 == state.id_ex.inst.attributes.rs1
           rs2 == state.id_ex.inst.attributes.rs2
           decoded == Instruction_new(state.if_id.raw_inst)
       IN  /\ ExRan =>
                /\ LastOf(pipe'.executed).op1
                     = ForwardedOperand(state, rs1, state.id_ex.op1)
                /\ LastOf(pipe'.executed).op2
                     = ForwardedOperand(state, rs2, state.id_ex.op2)
                /\ pipe'.err = "" =>
                     pipe'.next_state.ex_mem.op2
                       = ForwardedOperand(state, rs2, state.id_ex.op2)
           /\ IdRan =>
                /\ pipe'.current_state.id_ex.op1
                     = LatchedOperand(pipe, decoded.attributes.rs1)
                /\ pipe'.current_state.id_ex.op2
                     = LatchedOperand(pipe, decoded.attributes.rs2)]_vars

\* ADD x3,x1,x2 has left EX with x1 taken from MEM/WB and x2 from EX/MEM
BothOperandsForwarded ==
    /\ Runs("sum")
    /\ pipe.executed # << >>
    /\ LastOf(pipe.executed) = [pc |-> TextBase + 8, raw_inst |-> SumWords[3],
                                op1 |-> 5, op2 |-> 7]
    /\ pipe.current_state.id_ex.op1 = 0
    /\ pipe.cpu.gpr[1] = 5 /\ pipe.cpu.gpr[2] = 0

\* a load-use hazard as the rule states it: the ID/EX instruction gives its
\* result after MEM and the IF/ID instruction reads the register it writes
HazardDeclared(state) ==
    /\ state.id_ex.inst.opcode \in {"Lui", "AuiPc", "Jal", "Jalr", "Load"}
    /\ DecodeError(state.if_id.raw_inst) = ""
    /\ \E rs \in {Instruction_new(state.if_id.raw_inst).attributes.rs1,
                  Instruction_new(state.if_id.raw_inst).attributes.rs2} :
           rs = state.id_ex.inst.attributes.rd

\* a cycle of the pipelined driver that passed the stack check
CycleRan == pipe' # pipe /\ ~BelowStack(pipe.cpu)

\* C23: a load-use hazard is declared in a cycle iff the ID/EX instruction
\* is a LUI, AUIPC, JAL, JALR or LOAD and rs1 or rs2 of the IF/ID instruction
\* is its rd.  In such a cycle IF and ID do not run: IF/ID and, before any
\* redirect, the PC keep their values and nothing is fetched; ID/EX receives
\* a NOP, inst_count is decremented by 1, and EX, MEM and WB run on the
\* current latches.  In any other cycle IF fetches at the PC and ID decodes
\* the IF/ID word.
LoadHazardStalls ==
    [][CycleRan =>
        LET state == pipe.current_state
            f == front_end(pipe)
        IN  /\ HazardDeclared(state) =>
                /\ f.err = ""
                /\ f.next_state.if_id = state.if_id
                /\ f.cpu.pc = pipe.cpu.pc
                /\ f.mem = pipe.mem
                /\ f.next_state.id_ex.inst = Instruction_new(NOP)
                /\ f.cpu.history.inst_count = pipe.cpu.history.inst_count - 1
                /\ ExRan
                /\ LastOf(pipe'.executed).pc = state.id_ex.pc
                /\ LastOf(pipe'.executed).raw_inst = state.id_ex.inst.raw_inst
                /\ pipe'.err = "" =>
                    /\ pipe'.next_state.ex_mem.inst = state.id_ex.inst
                    /\ pipe'.next_state.mem_wb.inst = state.ex_mem.inst
                    /\ Forwards(state.mem_wb.inst, state.mem_wb.inst.attributes.rd)
                         => pipe'.cpu.gpr[Unwrap(state.mem_wb.inst.attributes.rd)]
                              = state.mem_wb.wb_result
            /\ (~HazardDeclared(state) /\ f.err = "") =>
                /\ f.cpu.pc = wrapping_add(pipe.cpu.pc, 4)
                /\ f.next_state.if_id.pc = pipe.cpu.pc
                /\ f.next_state.id_ex.pc = state.if_id.pc
                /\ f.next_state.id_ex.inst = Instruction_new(state.if_id.raw_inst)
                /\ f.cpu.history.inst_count = pipe.cpu.history.inst_count]_vars

\* the cycle with LUI x5 in EX has stalled ADDI x6,x5,1 in IF/ID
UpperImmediateStalled ==
    /\ Runs("upper")
    /\ pipe.cpu.history.cycle_count = 3
    /\ pipe.current_state.ex_mem.inst.opcode = "Lui"
    /\ pipe.current_state.id_ex.inst = Instruction_new(NOP)
    /\ pipe.current_state.if_id = [pc |-> TextBase + 4, raw_inst |-> UpperWords[2]]
    /\ pipe.cpu.pc = TextBase + 8

\* the machine after EX, MEM and WB of the cycle that starts at m
AfterStages(m) == back_end(front_end(m))

\* a cycle of the pipelined driver that ran to its end
CycleEnded == CycleRan /\ pipe'.status = "running"

\* the instruction in ex_mem does not take its branch: a BRANCH whose
\* comparator result is not 0
NotTaken(ex_mem) == ex_mem.inst.opcode = "Branch" /\ ex_mem.exec_result # 0

\* the next PC of the branching instruction in ex_mem
ActualNextPc(ex_mem) ==
    LET imm == Unwrap(ex_mem.inst.attributes.imm)
    IN  IF NotTaken(ex_mem) THEN wrapping_add(ex_mem.pc, 4)
        ELSE IF ex_mem.inst.opcode = "Jalr"
        THEN IF ex_mem.exec_result % 2 = 1 THEN ex_mem.exec_result - 1
             ELSE ex_mem.exec_result
        ELSE wrapping_add(ex_mem.pc, imm)

\* C24: after EX the driver redirects the PC to the actual next PC, puts NOP
\* in IF/ID and a decoded NOP in ID/EX and takes 2 from inst_count exactly
\* when the instruction latched into EX/MEM is a JAL or JALR, or a BRANCH
\* whose outcome differs from the prediction made for it when it entered
\* ID/EX a cycle earlier; otherwise, a rightly predicted BRANCH included,
\* neither the PC nor any latch changes.
RedirectOnJumpOrMisprediction ==
    [][CycleEnded =>
        LET m3 == AfterStages(pipe)
            r == resolve_branch(m3)
            ex_mem == m3.next_state.ex_mem
            predicted == /\ pipe.current_state.id_ex.inst.opcode = "Branch"
                         /\ predict(pipe.branch_predictor,
                                    pipe.current_state.id_ex.pc)
            redirect == \/ ex_mem.inst.opcode \in {"Jal", "Jalr"}
                        \/ /\ ex_mem.inst.opcode = "Branch"
                           /\ NotTaken(ex_mem) = predicted
        IN  IF redirect
            THEN /\ r.cpu.pc = ActualNextPc(ex_mem)
                 /\ r.next_state.if_id.raw_inst = NOP
                 /\ r.next_state.id_ex.inst = Instruction_new(NOP)
                 /\ r.next_state.ex_mem = m3.next_state.ex_mem
                 /\ r.next_state.mem_wb = m3.next_state.mem_wb
                 /\ r.cpu.history.inst_count = m3.cpu.history.inst_count - 2
            ELSE /\ r.cpu = m3.cpu
                 /\ r.next_state = m3.next_state]_vars

\* BEQ of the loop, predicted not taken, was taken: the PC is back at the
\* head of the loop behind two NOPs
MispredictedBranchRepaired ==
    /\ Runs("loop") /\ program.heuristic = "AlwaysNotTaken"
    /\ pipe.status = "running"
    /\ pipe.current_state.ex_mem.inst.opcode = "Branch"
    /\ pipe.current_state.ex_mem.exec_result = 0
    /\ pipe.cpu.pc = TextBase + 4
    /\ pipe.current_state.if_id.raw_inst = NOP
    /\ pipe.current_state.id_ex.inst = Instruction_new(NOP)

\* what EX gives for a branching instruction and its register operands: the
\* complement of the condition for a BRANCH, rs1 + imm for JALR
BranchResult(inst, op1, op2) ==
    IF inst.opcode = "Branch"
    THEN IF BranchCondition(inst.controls.alu_op, op1, op2) THEN 0 ELSE 1
    ELSE IF inst.opcode = "Jalr"
    THEN wrapping_add(op1, Unwrap(inst.attributes.imm))
    ELSE 0

\* the next PC of the instruction of a history entry
NextPcOf(e) ==
    LET inst == Instruction_new(e.raw_inst)
    IN  IF inst.controls.branch
        THEN ActualNextPc([pc |-> e.pc, inst |-> inst,
                           exec_result |-> BranchResult(inst, e.op1, e.op2)])
        ELSE wrapping_add(e.pc, 4)

\* C25: a branching instruction latched into EX/MEM is not taken iff it is a
\* BRANCH with exec_result # 0, and its next PC is then pc + 4; otherwise it
\* is taken, to exec_result with bit 0 cleared for JALR, to the taken_pc =
\* pc + imm precomputed in ID for a BRANCH, to pc + imm for JAL; the
\* single-cycle driver gives the same instruction with the same operands the
\* same next PC.
NextPcOfBranches ==
    [][/\ CycleEnded =>
            LET m3 == AfterStages(pipe)
                r == resolve_branch(m3)
                ex_mem == m3.next_state.ex_mem
                e == LastOf(m3.executed)
            IN  ex_mem.inst.controls.branch =>
                    /\ e.pc = ex_mem.pc /\ e.raw_inst = ex_mem.inst.raw_inst
                    /\ ex_mem.inst.opcode # "Jal" =>
                         ex_mem.exec_result
                           = BranchResult(ex_mem.inst, e.op1, e.op2)
                    /\ ex_mem.inst.opcode = "Branch" =>
                        /\ ex_mem.taken_pc
                             = Some(wrapping_add(ex_mem.pc,
                                    Unwrap(ex_mem.inst.attributes.imm)))
                        /\ LastOf(r.resolved).pc = ex_mem.pc
                        /\ LastOf(r.resolved).branch_taken = ~NotTaken(ex_mem)
                    /\ r.cpu.pc # m3.cpu.pc => r.cpu.pc = NextPcOf(e)
       /\ (single' # single /\ single'.status = "running") =>
            /\ Len(single'.executed) = Len(single.executed) + 1
            /\ LastOf(single'.executed).pc = single.cpu.pc
            /\ single'.cpu.pc = NextPcOf(LastOf(single'.executed))]_vars

\* JALR x0,0(x1) has sent both drivers back to the instruction after the JAL
ReturnedFromCall ==
    /\ Runs("call")
    /\ pipe.status = "running"
    /\ pipe.current_state.ex_mem.inst.opcode = "Jalr"
    /\ pipe.cpu.pc = TextBase + 4
    /\ single.executed # << >>
    /\ LastOf(single.executed).raw_inst = CallWords[5]
    /\ single.cpu.pc = TextBase + 4

\* C26: at the end of a pipelined cycle, iff the instruction placed in ID/EX
\* (after the flush or stall of the cycle) is a BRANCH whose pc is predicted
\* taken, the PC becomes its taken_pc, IF/ID becomes NOP, inst_count drops by
\* one and predicted_branch_taken is true; otherwise predicted_branch_taken is
\* false and neither the PC nor IF/ID changes in the prediction step.
PredictionStep ==
    [][CycleEnded =>
        LET r == resolve_branch(AfterStages(pipe))
            id_ex == r.next_state.id_ex
            taken == /\ id_ex.inst.opcode = "Branch"
                     /\ predict(r.branch_predictor, id_ex.pc)
        IN  /\ pipe'.current_state.id_ex = id_ex
            /\ pipe'.predicted_branch_taken = taken
            /\ pipe'.current_state.ex_mem = r.next_state.ex_mem
            /\ pipe'.current_state.mem_wb = r.next_state.mem_wb
            /\ pipe'.cpu.gpr = r.cpu.gpr
            /\ IF taken
               THEN /\ pipe'.cpu.pc = Unwrap(id_ex.taken_pc)
                    /\ pipe'.current_state.if_id.raw_inst = NOP
                    /\ pipe'.current_state.if_id.pc = r.next_state.if_id.pc
                    /\ pipe'.cpu.history.inst_count
                         = r.cpu.history.inst_count - 1
               ELSE /\ pipe'.cpu.pc = r.cpu.pc
                    /\ pipe'.current_state.if_id = r.next_state.if_id
                    /\ pipe'.cpu.history.inst_count
                         = r.cpu.history.inst_count]_vars

\* the loop branch was predicted taken as it entered ID/EX: the fetch goes on
\* at the loop head and the word fetched behind the branch is dropped
LoopBranchPredictedTaken ==
    /\ Runs("loop")
    /\ pipe.status = "running"
    /\ pipe.predicted_branch_taken
    /\ pipe.current_state.id_ex.inst.opcode = "Branch"
    /\ pipe.cpu.pc = Unwrap(pipe.current_state.id_ex.taken_pc)
    /\ pipe.cpu.pc # wrapping_add(pipe.current_state.id_ex.pc, 8)
    /\ pipe.current_state.if_id.raw_inst = NOP

\* C27: when the pipelined driver returns on the exit ECALL its register file
\* and its MMU hold what the single-cycle driver's hold at its return for the
\* same program: every instruction before the ECALL has completed its memory
\* access and its write-back.
SameStateAtExit ==
    BothReturned =>
        /\ pipe.cpu.gpr = single.cpu.gpr
        /\ pipe.mem.mmu = single.mem.mmu

(***************************************************************************)
(* Miss handling of the inclusive hierarchy                                *)
(***************************************************************************)
\* the addresses of the accesses offered to a hierarchy
Probes(h) == {a[1] : a \in Accesses(h)}

\* the hierarchy as an access finds it: access() has counted the reference
Referenced(h) == [h EXCEPT !.ref_counter = @ + 1]

\* the accesses level k has recorded
Recorded(h, k) ==
    CacheAt(h, k).history.num_hit + CacheAt(h, k).history.num_miss

\* the line comes out of the victim cache, which stands before level 1
FromVictim(h, k, address) ==
    h.use_victim_cache /\ k = 0 /\ lookup(h.victim_cache, address) # None

\* C28: on a miss at C[k] of an inclusive hierarchy, a read, or a write under
\* WriteAllocate, fetches the line from level k+1 and leaves it valid in C[k]
\* (a lookup of the address then hits at level k); a write under
\* WriteNoAllocate allocates, evicts and modifies no block of C[k] and is
\* passed on to level k+1.
InclusiveMissHandling ==
    (hier # Idle /\ hier.kind = "inclusive" /\ hier.panic = "") =>
        \A k \in 0..(hier.n - 1) : \A address \in Probes(hier) :
        \A access_type \in {"Read", "Write"} :
            LET h == Referenced(hier)
                r == access_inner(h, k, address, access_type, Some(0))
                passed_on == (k + 1 < h.n) =>
                                 Recorded(r.h, k + 1) = Recorded(h, k + 1) + 1
            IN  (Hier_lookup(h, k, address) = None /\ r.h.panic = "") =>
                    /\ CacheAt(r.h, k).history.num_miss
                         = CacheAt(h, k).history.num_miss + 1
                    /\ IF \/ access_type = "Read"
                          \/ h.write_miss_policy = "WriteAllocate"
                       THEN /\ r.idx # None
                            /\ r.idx = Hier_lookup(r.h, k, address)
                            /\ BlockAt(CacheAt(r.h, k), Unwrap(r.idx)).valid
                            /\ IF FromVictim(h, k, address)
                               THEN \A j \in 1..(h.n - 1) :
                                        Recorded(r.h, j) = Recorded(h, j)
                               ELSE passed_on
                       ELSE /\ r.idx = None
                            /\ CacheAt(r.h, k).blocks = CacheAt(h, k).blocks
                            /\ r.h.victim_cache = h.victim_cache
                            /\ passed_on

\* under WriteNoAllocate a written byte stays out of C[0], the read that
\* follows misses and fetches the line, and the next read hits
WriteMissThenFetch ==
    /\ hier # Idle /\ hier.kind = "inclusive" /\ hier.panic = ""
    /\ hier.write_miss_policy = "WriteNoAllocate"
    /\ Len(trace) = 3
    /\ trace[1].op = "set" /\ trace[2].op = "get" /\ trace[3].op = "get"
    /\ \A i \in 1..3 : trace[i].address = 4 /\ trace[i].step = 1
    /\ trace[1].history[1].num_miss = 1
    /\ trace[2].history[1].num_miss = 2
    /\ trace[3].history[1].num_hit = 1
    /\ Hier_lookup(hier, 0, 4) # None

(***************************************************************************)
(* Miss handling of the exclusive hierarchy                                *)
(***************************************************************************)
\* the levels of h that hold the line of the address
LevelsHolding(h, address) ==
    {j \in 0..(h.n - 1) : Hier_lookup(h, j, address) # None}

\* C29: in an exclusive hierarchy, after an access that misses C[0] the
\* addressed line is valid in C[0] and in no deeper level, and the block the
\* access displaced from C[0], if it was valid, is valid in C[1] and in no
\* other level.
ExclusiveMissHandling ==
    (hier # Idle /\ hier.kind = "exclusive" /\ hier.panic = "") =>
        \A address \in Probes(hier) : \A access_type \in {"Read", "Write"} :
            LET r == access(hier, address, access_type, Some(0))
                c0 == CacheAt(hier, 0)
                displaced == BlockAt(c0, Unwrap(r.idx))
            IN  (Hier_lookup(hier, 0, address) = None /\ r.h.panic = "") =>
                    /\ r.idx # None
                    /\ LevelsHolding(r.h, address) = {0}
                    /\ Hier_lookup(r.h, 0, address) = r.idx
                    /\ displaced.valid =>
                         LevelsHolding(r.h, get_address(c0, displaced)) = {1}

\* the line of address 0, displaced to C[1] by the line of address 4, has
\* come back to C[0] and the line of address 4 has gone down in its place
LinesSwapped ==
    /\ hier # Idle /\ hier.kind = "exclusive" /\ hier.panic = ""
    /\ Len(trace) = 3
    /\ trace[1].address = 0 /\ trace[2].address = 4 /\ trace[3].address = 0
    /\ trace[3].history[1].num_miss = 3
    /\ trace[3].history[2].num_hit = 1
    /\ LevelsHolding(hier, 0) = {0}
    /\ LevelsHolding(hier, 4) = {1}

(***************************************************************************)
(* The replacement choice, on caches of four blocks: one set of four ways  *)
(* and two sets of two ways.  An invalid slot is a reset block; a valid    *)
(* slot carries the reference count of its last access.                    *)
(***************************************************************************)
MaxRef == 3

ReplacePolicies ==
    {CachePolicy_make(8, 2, 4, 1), CachePolicy_make(8, 2, 2, 1)}

\* the contents of slot i of a cache of the policy
Slots(policy, i) ==
    {[valid |-> FALSE, dirty |-> FALSE, tag |-> 0,
      index |-> i \div policy.associativity, prv_ref |-> 0]}
    \cup {[valid |-> TRUE, dirty |-> FALSE, tag |-> i + 1,
           index |-> i \div policy.associativity, prv_ref |-> ref]
          : ref \in 1..MaxRef}

ReplaceCaches ==
    UNION {{[Cache_make(policy) EXCEPT !.blocks = blocks]
            : blocks \in {b \in [0..(policy.block_num - 1) ->
                                    UNION {Slots(policy, i)
                                           : i \in 0..(policy.block_num - 1)}]
                          : \A i \in DOMAIN b : b[i] \in Slots(policy, i)}}
           : policy \in ReplacePolicies}

InitReplace ==
    /\ call \in {[op |-> "none", cache |-> c] : c \in ReplaceCaches}
    /\ memory = Idle
    /\ hier = Idle /\ trace = Idle /\ IdleMachines /\ IdlePredictor

\* cache.get_index_to_replace(index)
Replace(index) ==
    /\ call.op = "none"
    /\ call' = [op |-> "get_index_to_replace", cache |-> call.cache,
                index |-> index,
                result |-> get_index_to_replace(call.cache, index)]
    /\ UNCHANGED << memory, cacheVars, machineVars, predictorVars >>

NextReplace ==
    \E index \in 0..(Pow2(call.cache.index_bits) - 1) : Replace(index)

SpecReplace == InitReplace /\ [][NextReplace]_vars

SlotsOfSet(c, index) == SetBegin(c, index)..(SetEnd(c, index) - 1)

InvalidSlots(c, index) == {i \in SlotsOfSet(c, index) : ~BlockAt(c, i).valid}

\* C30: the replacement slot chosen for a set lies inside the set; it is the
\* first invalid slot if the set has one, otherwise the slot with the
\* smallest reference count, the lowest-numbered one on ties; so a valid
\* block is chosen for eviction only when its set has no invalid slot.
ReplacementChoice ==
    call.op = "get_index_to_replace" =>
        LET c == call.cache
            set == SlotsOfSet(c, call.index)
            invalid == InvalidSlots(c, call.index)
            slot == call.result
        IN  /\ slot \in set
            /\ IF invalid # {}
               THEN /\ slot \in invalid
                    /\ \A i \in invalid : slot <= i
               ELSE \A i \in set :
                        \/ BlockAt(c, slot).prv_ref < BlockAt(c, i).prv_ref
                        \/ /\ BlockAt(c, slot).prv_ref = BlockAt(c, i).prv_ref
                           /\ slot <= i
            /\ BlockAt(c, slot).valid => invalid = {}

\* a full set of four ways whose two least recently used blocks tie: the
\* lower-numbered of them, not the first slot, is chosen
TieBrokenByLowestSlot ==
    /\ call.op = "get_index_to_replace"
    /\ call.cache.policy.associativity = 4
    /\ InvalidSlots(call.cache, call.index) = {}
    /\ BlockAt(call.cache, 0).prv_ref = 2
    /\ BlockAt(call.cache, 1).prv_ref = 1
    /\ BlockAt(call.cache, 2).prv_ref = 3
    /\ BlockAt(call.cache, 3).prv_ref = 1
    /\ call.result = 1

(***************************************************************************)
(* Dirty blocks and their write-back                                       *)
(***************************************************************************)
\* the levels below level k
Deeper(h, k) == [j \in (k + 1)..(h.n - 1) |-> CacheAt(h, j)]

\* level k has recorded the miss and level k+1 has served the fetch
Fetched(h, k, address) ==
    access_inner([h EXCEPT !.caches[k + 1] = record_miss(@)], k + 1, address,
                 "Write", Some(penalty(h, k))).h

\* one write with a null stall to level k+1 for each byte of the line, from
\* byte i on
RECURSIVE WrittenDown(_, _, _, _, _)
WrittenDown(h, k, line, i, block_size) ==
    IF i = block_size \/ h.panic # "" THEN h
    ELSE WrittenDown(access_inner(h, k + 1, line + i, "Write", None).h,
                     k, line, i + 1, block_size)

\* the inclusive hierarchies, with the write-back hierarchy that does not
\* allocate on a write miss and the default hierarchy with its victim cache
WriteBackHierarchies ==
    InclusiveHierarchies
    \cup {InclusiveCache_make(TinyPolicies, "WriteBack", "WriteNoAllocate",
                              100, FALSE),
          [InclusiveCache_default EXCEPT !.use_victim_cache = TRUE]}

InitWriteBack ==
    /\ hier \in {Prepared(h) : h \in WriteBackHierarchies}
    /\ trace = << >>
    /\ IdleMachines /\ IdlePredictor /\ IdleUnits

SpecWriteBack == InitWriteBack /\ [][NextCache]_vars

\* C31: every write that touches a block marks it dirty; under WriteBack,
\* when the fetch from the next level evicts a valid dirty block from C[k],
\* the evicted line is written to level k+1 with one write per byte of the
\* block and a null stall, and for k+1 < n is valid and dirty in C[k+1]
\* afterwards; the eviction of a clean block, and any eviction under
\* WriteThrough, writes nothing to level k+1.
DirtyBlocksWrittenBack ==
    (hier # Idle /\ hier.panic = "") =>
        \A k \in 0..(hier.n - 1) : \A address \in Probes(hier) :
        \A access_type \in {"Read", "Write"} :
            LET h == Referenced(hier)
                c == CacheAt(h, k)
                r == access_inner(h, k, address, access_type, Some(0))
                evicted == BlockAt(c, Unwrap(r.idx))
                line == get_address(c, evicted)
                fetch == /\ h.kind = "inclusive"
                         /\ Hier_lookup(h, k, address) = None
                         /\ r.idx # None
                         /\ ~FromVictim(h, k, address)
                written == /\ h.write_hit_policy = "WriteBack"
                           /\ evicted.valid /\ evicted.dirty
            IN  r.h.panic = "" =>
                  /\ (access_type = "Write" /\ r.idx # None) =>
                        /\ BlockAt(CacheAt(r.h, k), Unwrap(r.idx)).dirty
                        /\ Hier_lookup(r.h, k, address) = r.idx
                  /\ fetch =>
                        /\ Deeper(r.h, k)
                             = Deeper(IF written
                                      THEN WrittenDown(Fetched(h, k, address),
                                                       k, line, 0,
                                                       c.policy.block_size)
                                      ELSE Fetched(h, k, address), k)
                        /\ (written /\ k + 1 < h.n) =>
                              /\ Hier_lookup(r.h, k + 1, line) # None
                              /\ BlockAt(CacheAt(r.h, k + 1),
                                         Unwrap(Hier_lookup(r.h, k + 1, line))
                                        ).dirty

\* the line written at address 0 has been evicted from C[0] by the read of
\* address 4 and is held, dirty, by C[1]
DirtyLineWrittenDown ==
    /\ hier # Idle /\ hier.kind = "inclusive" /\ hier.panic = ""
    /\ hier.write_hit_policy = "WriteBack"
    /\ Len(trace) = 2
    /\ trace[1].op = "set" /\ trace[1].address = 0 /\ trace[1].step = 1
    /\ trace[2].op = "get" /\ trace[2].address = 4 /\ trace[2].step = 1
    /\ Hier_lookup(hier, 0, 0) = None
    /\ Hier_lookup(hier, 1, 0) # None
    /\ BlockAt(CacheAt(hier, 1), Unwrap(Hier_lookup(hier, 1, 0))).dirty

(***************************************************************************)
(* The victim cache beside first levels of several shapes: one block, one  *)
(* set of two ways, two sets of two ways, eight sets of one way            *)
(***************************************************************************)
VictimFirstLevels ==
    {CachePolicy_make(2, 2, 1, 1), CachePolicy_make(4, 2, 2, 1),
     CachePolicy_make(8, 2, 2, 1), CachePolicy_make(16, 2, 1, 1)}

VictimHierarchies ==
    {InclusiveCache_make(<< policy, CachePolicy_make(32, 2, 2, 8) >>,
                         "WriteBack", "WriteAllocate", 100, TRUE)
     : policy \in VictimFirstLevels}

InitVictim ==
    /\ hier \in {Prepared(h) : h \in VictimHierarchies}
    /\ trace = << >>
    /\ IdleMachines /\ IdlePredictor /\ IdleUnits

SpecVictim == InitVictim /\ [][NextCache]_vars

\* C32: for every valid policy of C[0], with the victim cache enabled, a miss
\* of C[0] that hits the victim cache fails no assertion, swaps the hit
\* victim block with the slot of the addressed set of C[0] that the
\* replacement choice names (the displaced block lands in the victim slot),
\* fixes tag and index of both blocks and returns that slot of C[0].
VictimHitSwaps ==
    (hier # Idle /\ hier.use_victim_cache /\ hier.panic = "") =>
        \A address \in Probes(hier) : \A access_type \in {"Read", "Write"} :
            LET c0 == CacheAt(hier, 0)
                vc == hier.victim_cache
                r == access(hier, address, access_type, Some(0))
                hit_index == Unwrap(lookup(vc, address))
                slot == get_index_to_replace(c0, get_index(c0, address))
                displaced == BlockAt(c0, slot)
                moved_up == BlockAt(CacheAt(r.h, 0), slot)
                moved_out == BlockAt(r.h.victim_cache, hit_index)
            IN  (Hier_lookup(hier, 0, address) = None
                 /\ lookup(vc, address) # None) =>
                    /\ r.h.panic = ""
                    /\ r.idx = Some(slot)
                    /\ moved_up.valid = BlockAt(vc, hit_index).valid
                    /\ moved_up.tag = get_tag(c0, address)
                    /\ moved_up.index = get_index(c0, address)
                    /\ moved_out.valid = displaced.valid
                    /\ moved_out.tag = get_tag(vc, get_address(c0, displaced))
                    /\ moved_out.index = hit_index
                    /\ moved_out.index
                         = get_index(vc, get_address(c0, displaced))

\* C33: a system call that reads memory in EX (print-string) sees the stores
\* of all the instructions before it in program order, the store just before
\* it included, as in the single-cycle driver: the two drivers print the same
\* characters.
SyscallSeesStores ==
    /\ Agree(pipe.out, single.out)
    /\ BothReturned => pipe.out = single.out

\* C34: a load-use stall lasts one cycle: the cycle after a stall declares no
\* hazard, and the instruction the stall held in IF/ID is decoded into ID/EX
\* in that cycle, unless a flush of the stall cycle replaced it with NOP.
StallLastsOneCycle ==
    [][(CycleEnded /\ HazardDeclared(pipe.current_state)) =>
        LET held == pipe.current_state.if_id
            after == pipe'.current_state
            following == settle(pipelined_run(pipe'))
        IN  /\ ~HazardDeclared(after)
            /\ ~load_hazard(after)
            /\ after.id_ex.inst = Instruction_new(NOP)
            /\ \/ after.if_id = held
               \/ /\ after.if_id.raw_inst = NOP
                  /\ pipe.current_state.id_ex.inst.opcode \in {"Jal", "Jalr"}
            /\ following.status = "running" =>
                  /\ following.current_state.id_ex.pc = after.if_id.pc
                  /\ following.current_state.id_ex.inst
                       = Instruction_new(after.if_id.raw_inst)
                  /\ following.current_state.ex_mem.inst
                       = Instruction_new(NOP)]_vars

\* the ADD that waited one cycle for the LW has been decoded: it is in ID/EX
\* behind the bubble
HeldInstructionDecoded ==
    /\ Runs("load")
    /\ pipe.status = "running"
    /\ pipe.current_state.id_ex.inst = Instruction_new(LoadWords[2])
    /\ pipe.current_state.id_ex.pc = TextBase + 4
    /\ pipe.current_state.ex_mem.inst = Instruction_new(NOP)
    /\ pipe.current_state.mem_wb.inst.opcode = "Load"

(***************************************************************************)
(* The reference counter                                                   *)
(***************************************************************************)
\* the blocks of all the levels and of the victim cache that have been
\* written since the caches were made; the others have the reference count 0
AllBlocks(h) ==
    UNION {{c.blocks[i] : i \in DOMAIN c.blocks}
           : c \in {CacheAt(h, k) : k \in 0..(h.n - 1)} \cup {h.victim_cache}}

\* a sized access has just been made and has returned a value
SizedAccessMade ==
    /\ trace' # trace
    /\ trace'[Len(trace')].err = ""
    /\ hier'.panic = ""

\* C35: ref_counter rises by exactly one for each outermost byte access
\* (get8, set8), whatever fetches, write-throughs and write-backs the access
\* makes below; it never decreases, and the reference count of every block
\* is at most ref_counter.
ReferenceCounter ==
    [][/\ SizedAccessMade =>
            hier'.ref_counter = hier.ref_counter + trace'[Len(trace')].step
       /\ hier # Idle =>
            /\ hier.ref_counter >= 0
            /\ hier'.ref_counter >= hier.ref_counter
            /\ \A block \in AllBlocks(hier') :
                   block.prv_ref <= hier'.ref_counter]_vars

\* a four-byte write through the write-through hierarchy and a byte read:
\* five references, with blocks referenced at every level
FiveReferences ==
    /\ hier # Idle /\ hier.panic = ""
    /\ hier.kind = "inclusive" /\ hier.write_hit_policy = "WriteThrough"
    /\ Len(trace) = 2
    /\ trace[1].op = "set" /\ trace[1].step = 4
    /\ trace[2].op = "get" /\ trace[2].step = 1
    /\ hier.ref_counter = 5
    /\ \E block \in AllBlocks(hier) : block.prv_ref = 5

(***************************************************************************)
(* Index consistency                                                       *)
(***************************************************************************)
\* the levels and the victim cache
AllCaches(h) == {CacheAt(h, k) : k \in 0..(h.n - 1)} \cup {h.victim_cache}

\* C36: in every state of every level and of the victim cache the block at
\* slot i has index = i / associativity, after fetches, evictions, victim
\* swaps and exclusive resets alike, so the index assertion of lookup never
\* fails.
BlocksKeepTheirSet ==
    hier # Idle =>
        /\ hier.panic # "lookup index"
        /\ hier.panic = "" =>
              \A c \in AllCaches(hier) : \A i \in DOMAIN c.blocks :
                  /\ validate_block(c, i)
                  /\ c.blocks[i].index = i \div c.policy.associativity
                  /\ i \in 0..(c.policy.block_num - 1)

\* the victim cache has given a line back to C[0] and taken the displaced
\* one: both hold valid blocks
SwappedWithVictim ==
    /\ hier # Idle /\ hier.use_victim_cache /\ hier.panic = ""
    /\ hier.victim_cache.history.num_hit = 1
    /\ \E i \in DOMAIN hier.victim_cache.blocks :
           hier.victim_cache.blocks[i].valid
    /\ \E i \in DOMAIN CacheAt(hier, 0).blocks :
           CacheAt(hier, 0).blocks[i].valid

(***************************************************************************)
(* The victim cache beside a direct-mapped C[0]                            *)
(***************************************************************************)
\* the lines valid in a cache
Lines(c) == {get_address(c, c.blocks[i]) : i \in {j \in DOMAIN c.blocks :
                                                    c.blocks[j].valid}}

DirectMappedWithVictim(h) ==
    /\ h # Idle /\ h.use_victim_cache
    /\ CacheAt(h, 0).policy.associativity = 1

\* C37: with the victim cache beside a direct-mapped C[0], between accesses
\* no line is valid in both; a line enters the victim cache only when it
\* leaves C[0], and a victim hit moves the line back to C[0] and out of the
\* victim cache.
VictimHoldsWhatLeftFirstLevel ==
    [][(DirectMappedWithVictim(hier) /\ hier'.panic = "") =>
        LET c0 == CacheAt(hier, 0)
            vc == hier.victim_cache
            c0_after == CacheAt(hier', 0)
            vc_after == hier'.victim_cache
            address == trace'[Len(trace')].address
            line == address - (address % c0.policy.block_size)
        IN  /\ Lines(c0) \cap Lines(vc) = {}
            /\ Lines(c0_after) \cap Lines(vc_after) = {}
            /\ \A entered \in Lines(vc_after) \ Lines(vc) :
                   entered \in Lines(c0) \ Lines(c0_after)
            /\ vc_after.history.num_hit > vc.history.num_hit =>
                   /\ line \in Lines(vc) \ Lines(vc_after)
                   /\ line \in Lines(c0_after) \ Lines(c0)]_vars

\* the line of address 0, evicted by the line of address 16, has come back
\* from the victim cache, which holds the line of address 16 in its place
LineBackFromVictim ==
    /\ DirectMappedWithVictim(hier) /\ hier.panic = ""
    /\ CacheAt(hier, 0).policy.block_num = 8
    /\ hier.victim_cache.history.num_hit = 1
    /\ 0 \in Lines(CacheAt(hier, 0))
    /\ Lines(hier.victim_cache) = {16}

(***************************************************************************)
(* One block per line                                                      *)
(***************************************************************************)
\* slots i # j of one set of c that hold valid blocks of the same tag
Duplicates(c) ==
    {ij \in (DOMAIN c.blocks) \X (DOMAIN c.blocks) :
        /\ ij[1] < ij[2]
        /\ ij[1] \div c.policy.associativity = ij[2] \div c.policy.associativity
        /\ c.blocks[ij[1]].valid /\ c.blocks[ij[2]].valid
        /\ c.blocks[ij[1]].tag = c.blocks[ij[2]].tag}

\* C38: in every state of an inclusive or exclusive hierarchy no level, and
\* not the victim cache, holds two valid blocks of the same tag in one set;
\* the assertion that the address is absent from C[k] when a block for it is
\* installed never fails.
OneBlockPerLine ==
    hier # Idle =>
        /\ hier.panic # "assert lookup is_none"
        /\ hier.panic = "" => \A c \in AllCaches(hier) : Duplicates(c) = {}

\* the two ways of a set hold valid blocks of different lines
TwoLinesShareASet ==
    /\ hier # Idle /\ hier.panic = ""
    /\ \E c \in AllCaches(hier) :
          /\ c.policy.associativity = 2
          /\ {0, 1} \subseteq DOMAIN c.blocks
          /\ c.blocks[0].valid /\ c.blocks[1].valid
          /\ c.blocks[0].tag # c.blocks[1].tag

(***************************************************************************)
(* Hit and miss counters.  Every sized access of the trace passes a stall  *)
(* sink, which its first byte carries; its other bytes carry none.         *)
(***************************************************************************)
\* C39: without a victim cache, in inclusive and exclusive hierarchies, the
\* hits and misses of C[0] add up to the number of outermost byte accesses
\* that carried a stall sink, and those of each level k >= 1 to the misses
\* of level k-1: write-through, write-back and eviction traffic and the
\* trailing bytes of the accesses of several bytes are not counted.
CountersFollowTheSink ==
    (hier # Idle /\ ~hier.use_victim_cache /\ hier.panic = "") =>
        /\ hier.n > 0 => Recorded(hier, 0) = Len(trace)
        /\ \A k \in 1..(hier.n - 1) :
               Recorded(hier, k) = CacheAt(hier, k - 1).history.num_miss
        /\ \A i \in 1..Len(trace) :
               trace[i].history[1].num_hit + trace[i].history[1].num_miss = i

\* three accesses, one of them a write of four bytes through the
\* write-through hierarchy: three records at C[0], hits among them
ThreeAccessesCounted ==
    /\ hier # Idle /\ hier.kind = "inclusive" /\ hier.panic = ""
    /\ hier.write_hit_policy = "WriteThrough"
    /\ Len(trace) = 3
    /\ \E i \in 1..3 : trace[i].op = "set" /\ trace[i].step = 4
    /\ Recorded(hier, 0) = 3
    /\ CacheAt(hier, 0).history.num_hit >= 1
    /\ hier.ref_counter = 6

(***************************************************************************)
(* Data.  The flat byte memory is rebuilt from the trace: a byte holds     *)
(* what the last write covering it put there, and zero before any write.   *)
(***************************************************************************)
RECURSIVE FlatByte(_, _)
FlatByte(t, a) ==
    IF t = << >> THEN 0
    ELSE The({ IF e.op = "set" /\ e.err = ""
                  /\ a \in e.address..(e.address + e.step - 1)
               THEN shr(e.val, 8 * (a - e.address)) % 256
               ELSE FlatByte(SubSeq(t, 1, Len(t) - 1), a)
               : e \in {t[Len(t)]} })

\* the little-endian value of step bytes, a u32 kept as the i32 of the
\* same bits
FlatValue(t, address, step) ==
    LET b(i) == FlatByte(t, address + i)
    IN  CASE step = 1 -> b(0)
          [] step = 2 -> b(0) + 256 * b(1)
          [] step = 4 -> b(0) + 256 * b(1) + 65536 * b(2)
                         + 16777216 * (IF b(3) >= 128 THEN b(3) - 256
                                       ELSE b(3))

TouchedBytes(h) == UNION {a[1]..(a[1] + a[2] - 1) : a \in Accesses(h)}

\* C40: caching is transparent to data.  Through every hierarchy, every
\* read that returns gives the little-endian value of the bytes last
\* written at its addresses, as a flat byte memory would, and the MMU
\* holds exactly the bytes written: fills, evictions and write-backs
\* change none of them.
CachingIsTransparent ==
    (hier # Idle /\ hier.panic = "") =>
        /\ \A i \in 1..Len(trace) :
               /\ trace[i].err = ""
               /\ trace[i].op = "get" =>
                      trace[i].val = FlatValue(SubSeq(trace, 1, i - 1),
                                               trace[i].address,
                                               trace[i].step)
        /\ \A a \in TouchedBytes(hier) :
               /\ MMU_get8(hier.mmu, a).err = ""
               /\ MMU_get8(hier.mmu, a).val = FlatByte(trace, a)

\* a read of four bytes after two overlapping writes, the later one of a
\* single byte on the top byte of the word, with a miss in between
OverlappingWritesReadBack ==
    /\ hier # Idle /\ hier.panic = "" /\ Len(trace) = 4
    /\ trace[1].op = "set" /\ trace[1].address = 1 /\ trace[1].step = 4
    /\ trace[2].op = "set" /\ trace[2].address = 4 /\ trace[2].step = 1
    /\ trace[3].op = "get" /\ trace[3].address = 8
    /\ trace[4].op = "get" /\ trace[4].address = 1 /\ trace[4].step = 4
    /\ trace[4].val = 1234 + 16777216 * (210 - 256)
    /\ CacheAt(hier, 0).history.num_miss >= 2
====
